---------------------------- MODULE Spec2Model ----------------------------
(***************************************************************************)
(* A model of the meeting_mcp extraction, scoring and summarization core.  *)
(*                                                                         *)
(* Text is a sequence of one-character strings, so that trimming, case     *)
(* folding, substring search and the regular expressions of the source act *)
(* on characters as they do in the program.  Scores are kept in tenths     *)
(* (0.4 is 4): every weight of the scorer is a multiple of 0.1.            *)
(***************************************************************************)
EXTENDS Integers, Sequences, FiniteSets, TLC

(***************************************************************************)
(* Bounds of the model.                                                    *)
(***************************************************************************)
\* number of phrases a scored text is assembled from
MaxParts == 3
\* number of sentences of a text given to extract_tasks_structured
MaxSentences == 3
\* largest max_tasks a caller passes
MaxTasksArg == 2
\* number of items of a list given to dedup_list
MaxItems == 3
\* number of characters of a text given to extract_last_json
MaxJsonLen == 5
\* number of pieces of a generated output
MaxOutputParts == 3
\* number of chunks of a transcript list given to the summarization tool
MaxChunks == 2
\* number of action items of a request to the Jira tool
MaxJiraItems == 2
\* number of worker threads that call a model loader at the same time
MaxIssues == 1
MaxNotifyParts == 3
MaxHandlers == 2
\* events fetched before the prompt
MaxEvents == 2
\* transcripts given to the preprocessing, pieces of text in one of them,
\* and the largest chunk_size
MaxTranscripts == 2
MaxPieces == 2
MaxChunkSize == 2
MaxThreads == 2

(***************************************************************************)
(* Program constants.                                                      *)
(***************************************************************************)
\* nlp_task_extraction.py:116  len(s) > 400
LongSentenceLen == 400
\* nlp_task_extraction.py:125  min_confidence: float = 0.4 (in tenths)
DefaultMinConfidence == 4
\* nlp_task_extraction.py:125  max_tasks: int = 10
DefaultMaxTasks == 10

\* mcp_api.py:48  status.HTTP_401_UNAUTHORIZED
HTTP_401_UNAUTHORIZED == 401
\* the status of a response the endpoint returned
HTTP_200_OK == 200

VARIABLES
  \* extract_tasks_structured: arguments, position, locals
  text, max_tasks, min_confidence, pcExtract, sentences, sentIdx, tasks, scored,
  \* dedup_list: argument, position, result, result of a second application
  items, pcDedup, deduped, dedupedTwice,
  \* extract_last_json: argument, position, result
  mistral_output, pcJson, json_str,
  \* summarize_with_mistral: argument, position, chunks, the locals of the
  \* loop body, the returned value, the exception raised
  transcript, pcMistral, transcript_chunks, chunkLocals, mistralReturn,
  mistralError,
  \* the tools' execute: the tool called, its params, position, the outcome
  \* returned, the wrapped calls that raised; and for the summarization
  \* tool the locals of summarize_protocol, the backends it attempted and
  \* the result it built
  tool, params, pcTool, outcome, failure,
  mode, full_transcript, attempts, summary, action_items, result,
  \* lines 181-185 of summarize_with_mistral: the parsed fields, position,
  \* the filtered lists, the exception raised
  parsedFields, pcFilter, filteredLists, filterError,
  \* get_bart_model / get_mistral_model called from worker threads: which
  \* loader, whether the model path exists and a GPU is present, each
  \* thread's position, the attributes cached on the function, and the
  \* number of from_pretrained loads performed
  loader, pathExists, cudaAvailable, pcLoader, hasTokenizer, hasModel,
  tokenizerLoads, modelLoads,
  \* server/mcp_api.py: the environment (MCP_API_KEY, DISABLE_API_KEY_CHECK),
  \* the endpoint requested, the x-api-key header, position, the status of
  \* the response, the sessions created and the tools dispatched
  envApiKey, envDisableCheck, endpoint, x_api_key, pcApi, apiStatus,
  sessionsCreated, dispatched,
  \* JiraTool.execute, JiraAgent.handle_create_jira_message and
  \* create_jira_issues: the environment (jira package imported, URL, user
  \* and token found, JIRA(...) connects), the parts of the message, the
  \* action items handed to create_jira_issues, position, the loop index,
  \* the entries created, the external calls made, the value returned by
  \* create_jira_issues and the outcome of the tool
  jiraEnv, jiraParts, jiraItems, pcJira, jiraIdx, created, jiraCalls,
  jiraReturn, jiraOutcome,
  \* RiskTool.execute and RiskDetectionAgent: the params of the call,
  \* whether the agent has a Jira client, the position, the number of ids
  \* generated, the risks of detect, the Jira query reached, the risks of
  \* detect_jira_risks, and the outcome of the tool
  riskParams, riskClient, pcRisk, riskIds, summary_risks, jiraQuery,
  jira_risks, riskOutcome,
  \* NotificationAgent.handle_notify_message: the parts of the message,
  \* the position, the arguments notify is called with, and the parts of
  \* the response
  notifyParts, pcNotify, notifyArgs, notifyResponse,
  \* the per-capability HTTP handlers of server/mcp_api.py running
  \* together: the endpoint and the position of each handler, the session
  \* it created, the sessions the host holds active, the number of sessions
  \* created, and the tool calls issued
  handlerEndpoint, pcHandler, handlerSession, activeSessions, sessionCount,
  hostCalls,
  \* agents/transcript_preprocessing_agent.py: the arguments of process,
  \* the index of the loop over the transcripts, the chunks and the word
  \* count so far, and the dict returned
  prepTranscripts, prepChunkSize, prepIndex, prepProcessed, prepTotalWords,
  prepReturn,
  \* ui/streamlit_agent_client.py and ui/renderers.py: the prompt, the
  \* session state (last_events, last_action_items, processed_cache), the
  \* position of the script, handled, the matched event, the meeting title
  \* and the processed chunks of the summarize flow, the flow it runs in,
  \* what the preprocessing step returned (proc_summary),
  \* and the calls of orchestrator.orchestrate so far
  prompt, last_events, last_action_items, processed_cache, pcChat, handled,
  chatMatched, meeting_title, chatProcessed, chatFlow, proc_summary, chatCalls

extractVars == <<text, max_tasks, min_confidence, pcExtract, sentences, sentIdx,
                 tasks, scored>>

dedupVars == <<items, pcDedup, deduped, dedupedTwice>>

jsonVars == <<mistral_output, pcJson, json_str>>

mistralVars == <<transcript, pcMistral, transcript_chunks, chunkLocals,
                 mistralReturn, mistralError>>

filterVars == <<parsedFields, pcFilter, filteredLists, filterError>>

loaderVars == <<loader, pathExists, cudaAvailable, pcLoader, hasTokenizer,
                hasModel, tokenizerLoads, modelLoads>>

apiVars == <<envApiKey, envDisableCheck, endpoint, x_api_key, pcApi, apiStatus,
             sessionsCreated, dispatched>>

jiraVars == <<jiraEnv, jiraParts, jiraItems, pcJira, jiraIdx, created,
              jiraCalls, jiraReturn, jiraOutcome>>

riskVars == <<riskParams, riskClient, pcRisk, riskIds, summary_risks, jiraQuery,
             jira_risks, riskOutcome>>

notifyVars == <<notifyParts, pcNotify, notifyArgs, notifyResponse>>

sessionVars == <<handlerEndpoint, pcHandler, handlerSession, activeSessions,
                 sessionCount, hostCalls>>

prepVars == <<prepTranscripts, prepChunkSize, prepIndex, prepProcessed,
              prepTotalWords, prepReturn>>

chatVars == <<prompt, last_events, last_action_items, processed_cache, pcChat,
              handled, chatMatched, meeting_title, chatProcessed, chatFlow, proc_summary,
              chatCalls>>

toolVars == <<tool, params, pcTool, outcome, failure, mode, full_transcript,
              attempts, summary, action_items, result>>

vars == <<extractVars, dedupVars, jsonVars, mistralVars, toolVars,
    filterVars,
    loaderVars,
    apiVars,
    jiraVars,
    riskVars,
    notifyVars,
    sessionVars,
    prepVars,
    chatVars>>

\* the components an action of extract_tasks_structured leaves alone
extractOthers == <<dedupVars, jsonVars, mistralVars, toolVars,
    filterVars,
    loaderVars,
    apiVars,
    jiraVars,
    riskVars,
    notifyVars,
    sessionVars,
    prepVars,
    chatVars>>

\* the components an application of dedup_list leaves alone
dedupOthers == <<extractVars, jsonVars, mistralVars, toolVars,
    filterVars,
    loaderVars,
    apiVars,
    jiraVars,
    riskVars,
    notifyVars,
    sessionVars,
    prepVars,
    chatVars>>

\* the components a call of extract_last_json leaves alone
jsonOthers == <<extractVars, dedupVars, mistralVars, toolVars,
    filterVars,
    loaderVars,
    apiVars,
    jiraVars,
    riskVars,
    notifyVars,
    sessionVars,
    prepVars,
    chatVars>>

\* the components summarize_with_mistral leaves alone (it writes the
\* variables of extract_last_json)
mistralOthers == <<extractVars, dedupVars, toolVars,
    filterVars,
    loaderVars,
    apiVars,
    jiraVars,
    riskVars,
    notifyVars,
    sessionVars,
    prepVars,
    chatVars>>

\* the components a tool's execute leaves alone
toolOthers == <<extractVars, dedupVars, jsonVars, mistralVars,
    filterVars,
    loaderVars,
    apiVars,
    jiraVars,
    riskVars,
    notifyVars,
    sessionVars,
    prepVars,
    chatVars>>

\* the components the model loaders leave alone
loaderOthers == <<extractVars, dedupVars, jsonVars, mistralVars, toolVars,
                  filterVars,
    apiVars,
    jiraVars,
    riskVars,
    notifyVars,
    sessionVars,
    prepVars,
    chatVars>>

\* the components a request to the API leaves alone
apiOthers == <<extractVars, dedupVars, jsonVars, mistralVars, toolVars,
               filterVars, loaderVars,
    jiraVars,
    riskVars,
    notifyVars,
    sessionVars,
    prepVars,
    chatVars>>

\* the components the concurrent handlers leave alone
sessionOthers == <<extractVars, dedupVars, jsonVars, mistralVars, toolVars,
                   filterVars, loaderVars, apiVars, jiraVars, riskVars,
                   notifyVars,
    prepVars,
    chatVars>>

\* the components the transcript preprocessing leaves alone
prepOthers == <<extractVars, dedupVars, jsonVars, mistralVars, toolVars,
                filterVars, loaderVars, apiVars, jiraVars, riskVars,
                notifyVars, sessionVars,
    chatVars>>

\* the components the chat interface leaves alone
chatOthers == <<extractVars, dedupVars, jsonVars, mistralVars, toolVars,
                filterVars, loaderVars, apiVars, jiraVars, riskVars,
                notifyVars, sessionVars, prepVars>>

\* the components the notification handler leaves alone
notifyOthers == <<extractVars, dedupVars, jsonVars, mistralVars, toolVars,
                  filterVars, loaderVars, apiVars, jiraVars, riskVars,
    sessionVars,
    prepVars,
    chatVars>>

\* the components the risk tool and agent leave alone
riskOthers == <<extractVars, dedupVars, jsonVars, mistralVars, toolVars,
                filterVars, loaderVars, apiVars, jiraVars, notifyVars,
    sessionVars,
    prepVars,
    chatVars>>

\* the components the Jira tool and agent leave alone
jiraOthers == <<extractVars, dedupVars, jsonVars, mistralVars, toolVars,
                filterVars, loaderVars, apiVars,
    riskVars,
    notifyVars,
    sessionVars,
    prepVars,
    chatVars>>

\* the components the filtering lines leave alone
filterOthers == <<extractVars, dedupVars, jsonVars, mistralVars, toolVars,
    loaderVars,
    apiVars,
    jiraVars,
    riskVars,
    notifyVars,
    sessionVars,
    prepVars,
    chatVars>>

(***************************************************************************)
(* Characters and strings.                                                 *)
(***************************************************************************)
UpperLetters == <<"A", "B", "C", "D", "E", "F", "G", "H", "I", "J", "K", "L", "M", "N", "O", "P", "Q", "R", "S", "T", "U", "V", "W", "X", "Y", "Z">>
LowerLetters == <<"a", "b", "c", "d", "e", "f", "g", "h", "i", "j", "k", "l", "m", "n", "o", "p", "q", "r", "s", "t", "u", "v", "w", "x", "y", "z">>

Range(f) == {f[i] : i \in DOMAIN f}

UpperSet == Range(UpperLetters)
LowerSet == Range(LowerLetters)
LetterSet == UpperSet \cup LowerSet
DigitSet == {"0", "1", "2", "3", "4", "5", "6", "7", "8", "9"}
\* \s
SpaceSet == {" ", "\t", "\n", "\r"}
\* \w
WordSet == LetterSet \cup DigitSet \cup {"_"}
\* [a-zA-Z\-]
NameSet == LetterSet \cup {"-"}

LowerMap == [c \in UpperSet |-> LowerLetters[CHOOSE i \in 1..26 : UpperLetters[i] = c]]

\* str.lower() on one character
Lower(c) == IF c \in UpperSet THEN LowerMap[c] ELSE c

\* str.lower()
LowerSeq(s) == [i \in 1..Len(s) |-> Lower(s[i])]

\* the last index of the run of characters of S that starts at i (i-1: no run)
RunEnd(s, i, S) ==
  IF i > Len(s) THEN i - 1
  ELSE CHOOSE j \in (i - 1)..Len(s) :
         /\ (j = Len(s) \/ s[j + 1] \notin S)
         /\ \A k \in i..j : s[k] \in S

\* the last index of the run of characters outside S that starts at i
RunEndNot(s, i, S) ==
  IF i > Len(s) THEN i - 1
  ELSE CHOOSE j \in (i - 1)..Len(s) :
         /\ (j = Len(s) \/ s[j + 1] \in S)
         /\ \A k \in i..j : s[k] \notin S

\* the first index of the run of characters of S that ends at i (i+1: no run)
RunStart(s, i, S) ==
  IF i < 1 THEN i + 1
  ELSE CHOOSE j \in 1..(i + 1) :
         /\ (j = 1 \/ s[j - 1] \notin S)
         /\ \A k \in j..i : s[k] \in S

\* str.strip()
Strip(s) ==
  LET a == RunEnd(s, 1, SpaceSet) + 1
      b == RunStart(s, Len(s), SpaceSet) - 1
  IN  IF a > b THEN <<>> ELSE SubSeq(s, a, b)

\* pat occurs in s at index i
MatchAt(s, i, pat) ==
  /\ i >= 1
  /\ i + Len(pat) - 1 <= Len(s)
  /\ \A k \in 1..Len(pat) : s[i + k - 1] = pat[k]

\* pat in s
Contains(s, pat) == \E i \in 1..(Len(s) - Len(pat) + 1) : MatchAt(s, i, pat)

\* s.startswith(pat)
StartsWith(s, pat) == MatchAt(s, 1, pat)

RECURSIVE Concat(_)
Concat(ss) == IF ss = <<>> THEN <<>> ELSE Head(ss) \o Concat(Tail(ss))

\* ss[a] \o ... \o ss[b], halving the range
RECURSIVE Flatten(_, _, _)
Flatten(ss, a, b) ==
  IF a > b THEN <<>>
  ELSE IF a = b THEN ss[a]
  ELSE LET m == (a + b) \div 2
       IN  Flatten(ss, a, m) \o Flatten(ss, m + 1, b)

\* all sequences over S of length at most n
SeqsUpTo(S, n) == UNION {[1..k -> S] : k \in 0..n}

Max(a, b) == IF a >= b THEN a ELSE b
Min(a, b) == IF a <= b THEN a ELSE b

(***************************************************************************)
(* tools/nlp_task_extraction.py                                            *)
(***************************************************************************)

\* re.sub(r"\s+", " ", txt): every run of whitespace becomes one space
RECURSIVE CollapseFrom(_, _)
CollapseFrom(s, i) ==
  IF i > Len(s) THEN <<>>
  ELSE IF s[i] \in SpaceSet
       THEN <<" ">> \o CollapseFrom(s, RunEnd(s, i, SpaceSet) + 1)
       ELSE SubSeq(s, i, RunEndNot(s, i, SpaceSet))
            \o CollapseFrom(s, RunEndNot(s, i, SpaceSet) + 1)

CollapseWs(s) == CollapseFrom(s, 1)

\* a match of r'(?<=[\.\?!])\s+' starts at i
CutAt(s, i) == i > 1 /\ s[i] \in SpaceSet /\ s[i - 1] \in {".", "?", "!"}

\* re.split(r'(?<=[\.\?!])\s+', txt): the pieces between the runs of
\* whitespace that follow a sentence ender, from index i on
RECURSIVE SplitFrom(_, _)
SplitFrom(s, i) ==
  IF \E j \in i..Len(s) : CutAt(s, j)
  THEN LET c == CHOOSE j \in i..Len(s) : CutAt(s, j) /\ \A k \in i..(j - 1) : ~CutAt(s, k)
       IN  <<SubSeq(s, i, c - 1)>> \o SplitFrom(s, RunEnd(s, c, SpaceSet) + 1)
  ELSE <<SubSeq(s, i, Len(s))>>

SplitAfterEnders(s) == SplitFrom(s, 1)

NonEmpty(s) == s # <<>>

\* _split_sentences
split_sentences(t) ==
  IF t = <<>> THEN <<>>
  ELSE LET txt == CollapseWs(Strip(t))
           parts == SplitAfterEnders(txt)
           stripped == [k \in 1..Len(parts) |-> Strip(parts[k])]
       IN  SelectSeq(stripped, NonEmpty)

\* r"owner:\s*([A-Z][a-zA-Z\-]+)" with re.I, on the lowered sentence
OwnerLabelled(low) ==
  \E i \in 1..Len(low) :
    /\ MatchAt(low, i, <<"o", "w", "n", "e", "r", ":">>)
    /\ LET j == RunEnd(low, i + 6, SpaceSet) + 1
       IN  /\ j + 1 <= Len(low)
           /\ low[j] \in LetterSet
           /\ low[j + 1] \in NameSet

\* r"assign(?:ed)?(?: to)?\s+([A-Z][a-zA-Z\-]+)" with re.I, on the lowered sentence
OwnerAssigned(low) ==
  \E i \in 1..Len(low) :
    /\ MatchAt(low, i, <<"a", "s", "s", "i", "g", "n">>)
    /\ \E a \in {i + 6} \cup (IF MatchAt(low, i + 6, <<"e", "d">>) THEN {i + 8} ELSE {}) :
         \E b \in {a} \cup (IF MatchAt(low, a, <<" ", "t", "o">>) THEN {a + 3} ELSE {}) :
           LET j == RunEnd(low, b, SpaceSet) + 1
           IN  /\ j > b
               /\ j + 1 <= Len(low)
               /\ low[j] \in LetterSet
               /\ low[j + 1] \in NameSet

\* r"([A-Z][a-zA-Z\-]+)\s*\(" (case-sensitive)
OwnerWithRole(s) ==
  \E i \in 1..Len(s) :
    /\ s[i] \in UpperSet
    /\ LET e == RunEnd(s, i + 1, NameSet)
           k == RunEnd(s, e + 1, SpaceSet) + 1
       IN  /\ e >= i + 1
           /\ k <= Len(s)
           /\ s[k] = "("

ModalVerbs ==
  { <<"w", "i", "l", "l">>, <<"s", "h", "a", "l", "l">>,
    <<"s", "h", "o", "u", "l", "d">>, <<"c", "a", "n">>, <<"m", "u", "s", "t">> }

\* r"([A-Z][a-zA-Z\-]+)\s+(will|shall|should|can|must)\b" (case-sensitive)
OwnerWithModal(s) ==
  \E i \in 1..Len(s) :
    /\ s[i] \in UpperSet
    /\ LET e == RunEnd(s, i + 1, NameSet)
           w == RunEnd(s, e + 1, SpaceSet)
       IN  /\ e >= i + 1
           /\ w >= e + 1
           /\ \E m \in ModalVerbs :
                /\ MatchAt(s, w + 1, m)
                /\ LET p == w + 1 + Len(m)
                   IN  p > Len(s) \/ s[p] \notin WordSet

\* r"([A-Za-z][a-zA-Z\-]+)\s*(?:,)?\s+to\s+\w+" with re.I, on the lowered sentence
OwnerShorthand(low) ==
  \E i \in 1..Len(low) :
    /\ low[i] \in LetterSet
    /\ LET e == RunEnd(low, i + 1, NameSet)
           w == RunEnd(low, e + 1, SpaceSet)
           w2 == RunEnd(low, w + 2, SpaceSet)
       IN  /\ e >= i + 1
           /\ \E t \in (IF w >= e + 1 THEN {w + 1} ELSE {})
                       \cup (IF w + 1 <= Len(low) /\ low[w + 1] = "," /\ w2 >= w + 2
                             THEN {w2 + 1} ELSE {}) :
                /\ MatchAt(low, t, <<"t", "o">>)
                /\ LET v == RunEnd(low, t + 2, SpaceSet)
                   IN  /\ v >= t + 2
                       /\ v + 1 <= Len(low)
                       /\ low[v + 1] \in WordSet

\* _find_owner(sentence) is not None
find_owner(s) ==
  \/ OwnerLabelled(LowerSeq(s))
  \/ OwnerAssigned(LowerSeq(s))
  \/ OwnerWithRole(s)
  \/ OwnerWithModal(s)
  \/ OwnerShorthand(LowerSeq(s))

\* n digits at j
DigitsAt(s, j, n) == j + n - 1 <= Len(s) /\ \A k \in 0..(n - 1) : s[j + k] \in DigitSet

\* r"[A-Z][a-z]+\b" with re.I at j
DateWordAt(low, j) ==
  /\ j <= Len(low)
  /\ low[j] \in LetterSet
  /\ LET e == RunEnd(low, j + 1, LetterSet)
     IN  /\ e >= j + 1
         /\ (e = Len(low) \/ low[e + 1] \notin WordSet)

\* r"\d{1,2}/\d{1,2}/\d{2,4}" at j
SlashDateAt(s, j) ==
  \E a \in 1..2 : \E b \in 1..2 :
    /\ DigitsAt(s, j, a)
    /\ MatchAt(s, j + a, <<"/">>)
    /\ DigitsAt(s, j + a + 1, b)
    /\ MatchAt(s, j + a + 1 + b, <<"/">>)
    /\ DigitsAt(s, j + a + b + 2, 2)

\* r"\d{4}-\d{2}-\d{2}" at j
IsoDateAt(s, j) ==
  /\ DigitsAt(s, j, 4)
  /\ MatchAt(s, j + 4, <<"-">>)
  /\ DigitsAt(s, j + 5, 2)
  /\ MatchAt(s, j + 7, <<"-">>)
  /\ DigitsAt(s, j + 8, 2)

\* r"by\s+([A-Z][a-z]+\b|\d{1,2}/\d{1,2}/\d{2,4}|\d{4}-\d{2}-\d{2})" with re.I
DueBy(low) ==
  \E i \in 1..Len(low) :
    /\ MatchAt(low, i, <<"b", "y">>)
    /\ LET w == RunEnd(low, i + 2, SpaceSet)
       IN  /\ w >= i + 2
           /\ (DateWordAt(low, w + 1) \/ SlashDateAt(low, w + 1) \/ IsoDateAt(low, w + 1))

\* r"due\s+(on\s+)?([A-Z][a-z]+\b|\d{1,2}/\d{1,2}/\d{2,4})" with re.I
DueOn(low) ==
  \E i \in 1..Len(low) :
    /\ MatchAt(low, i, <<"d", "u", "e">>)
    /\ LET w == RunEnd(low, i + 3, SpaceSet)
           w2 == RunEnd(low, w + 3, SpaceSet)
       IN  /\ w >= i + 3
           /\ \E j \in {w + 1} \cup (IF MatchAt(low, w + 1, <<"o", "n">>) /\ w2 >= w + 3
                                     THEN {w2 + 1} ELSE {}) :
                DateWordAt(low, j) \/ SlashDateAt(low, j)

\* _find_due(sentence) is not None
find_due(s) == DueBy(LowerSeq(s)) \/ DueOn(LowerSeq(s))

conditional_markers ==
  << <<" ", "i", "f", " ">>,
     <<"^", "i", "f", " ">>,
     <<" ", "m", "i", "g", "h", "t", " ">>,
     <<" ", "c", "o", "u", "l", "d", " ">>,
     <<" ", "m", "a", "y", "b", "e", " ">>,
     <<" ", "m", "a", "y", " ">>,
     <<" ", "i", "f", " ", "w", "e", " ">>,
     <<"w", "h", "e", "n", " ", "w", "e", " ">>,
     <<"w", "h", "e", "n", " ", "t", "h", "e", " ">> >>

strong_verbs ==
  { <<"a", "s", "s", "i", "g", "n">>,
    <<"i", "m", "p", "l", "e", "m", "e", "n", "t">>,
    <<"c", "r", "e", "a", "t", "e">>,
    <<"p", "r", "e", "p", "a", "r", "e">>,
    <<"f", "i", "x">>,
    <<"v", "e", "r", "i", "f", "y">>,
    <<"t", "e", "s", "t">>,
    <<"r", "e", "v", "i", "e", "w">>,
    <<"d", "o", "c", "u", "m", "e", "n", "t">>,
    <<"s", "c", "h", "e", "d", "u", "l", "e">>,
    <<"d", "e", "l", "i", "v", "e", "r">>,
    <<"i", "n", "v", "e", "s", "t", "i", "g", "a", "t", "e">>,
    <<"f", "o", "l", "l", "o", "w", " ", "u", "p">>,
    <<"f", "o", "l", "l", "o", "w", "-", "u", "p">>,
    <<"f", "o", "l", "l", "o", "w", "-", "u", "p", ":">> }

verbs_boost ==
  { <<"p", "r", "e", "p", "a", "r", "e">>,
    <<"c", "r", "e", "a", "t", "e">>,
    <<"a", "s", "s", "i", "g", "n">>,
    <<"i", "n", "v", "e", "s", "t", "i", "g", "a", "t", "e">>,
    <<"i", "m", "p", "l", "e", "m", "e", "n", "t">>,
    <<"f", "i", "x">>,
    <<"v", "e", "r", "i", "f", "y">>,
    <<"t", "e", "s", "t">>,
    <<"r", "e", "v", "i", "e", "w">>,
    <<"d", "o", "c", "u", "m", "e", "n", "t">>,
    <<"s", "c", "h", "e", "d", "u", "l", "e">> }

\* one pass of the loop over conditional_markers: the "^"-marked entry is
\* matched at the start of low (re.match(cm[1:], low)), the others anywhere
MarkerHits(cm, low) ==
  IF StartsWith(Strip(cm), <<"^">>)
  THEN StartsWith(low, Tail(cm))
  ELSE Contains(low, cm)

IsConditional(low) ==
  \E k \in 1..Len(conditional_markers) : MarkerHits(conditional_markers[k], low)

\* any(v in low for v in strong_verbs)
HasStrongVerb(low) == \E v \in strong_verbs : Contains(low, v)

\* re.match(r"^[A-Za-z]+\s", s) and the first word in verbs_boost
ImperativeStart(s) ==
  LET n == RunEnd(s, 1, LetterSet)
  IN  /\ n >= 1
      /\ n + 1 <= Len(s)
      /\ s[n + 1] \in SpaceSet
      /\ LowerSeq(SubSeq(s, 1, n)) \in verbs_boost

\* the length penalty without its floor at 0
PenaliseNoFloor(s, score) ==
  LET penalised == IF Len(s) > LongSentenceLen THEN score - 2 ELSE score
  IN  IF penalised > 10 THEN 10 ELSE penalised

\* the score after the length heuristic and the cap
PenaliseAndCap(s, score) ==
  LET penalised == IF Len(s) > LongSentenceLen THEN Max(0, score - 2) ELSE score
  IN  IF penalised > 10 THEN 10 ELSE penalised

\* the score accumulated from the four signals
SignalScore(s, low) ==
  LET afterOwner == IF find_owner(s) THEN 4 ELSE 0
      afterDue == afterOwner + (IF find_due(s) THEN 2 ELSE 0)
      afterVerb == afterDue + (IF HasStrongVerb(low) THEN 3 ELSE 0)
  IN  afterVerb + (IF ImperativeStart(s) THEN 1 ELSE 0)

\* a conditional sentence penalised by 0.5 instead of rejected
ConditionalPenalty(s, low) == Max(0, PenaliseAndCap(s, SignalScore(s, low)) - 5)

\* what a conditional sentence scores: the early return 0.0
ConditionalScore(s, low) == 0

\* _score_action_sentence, in tenths
score_action_sentence(sentence) ==
  IF sentence = <<>> THEN 0
  ELSE LET s == Strip(sentence)
           low == LowerSeq(s)
       IN  IF IsConditional(low) THEN ConditionalScore(s, low)
           ELSE PenaliseAndCap(s, SignalScore(s, low))

\* the threshold taken as exclusive
EmitsStrict(score, minc) == score > minc

\* if score >= min_confidence
Emits(score, minc) == score >= minc

\* if len(tasks) >= max_tasks: break
CapReached(ts, maxt) == Len(ts) >= maxt

\* the task built for a sentence (title, owner and due are derived from raw
\* and are left out)
Task(sent, score) == [raw |-> sent, confidence |-> score]

\* extract_tasks_structured, entry: the guard on text and the split
ExtractCall ==
  /\ pcExtract = "call"
  /\ IF text = <<>>
     THEN /\ pcExtract' = "done"
          /\ UNCHANGED <<sentences, sentIdx>>
     ELSE /\ sentences' = split_sentences(text)
          /\ sentIdx' = 1
          /\ pcExtract' = "loop"
  /\ UNCHANGED <<text, max_tasks, min_confidence, tasks, scored, extractOthers>>

\* extract_tasks_structured, one pass of "for sent in sentences"
ExtractLoopStep ==
  /\ pcExtract = "loop"
  /\ sentIdx <= Len(sentences)
  /\ LET sent == sentences[sentIdx]
         score == score_action_sentence(sent)
         appended == IF Emits(score, min_confidence)
                     THEN Append(tasks, Task(sent, score))
                     ELSE tasks
     IN  /\ tasks' = appended
         /\ scored' = Append(scored, score)
         /\ IF CapReached(appended, max_tasks)
            THEN pcExtract' = "done" /\ UNCHANGED sentIdx
            ELSE pcExtract' = "loop" /\ sentIdx' = sentIdx + 1
  /\ UNCHANGED <<text, max_tasks, min_confidence, sentences, extractOthers>>

\* extract_tasks_structured, the loop ran out of sentences: return tasks
ExtractExhausted ==
  /\ pcExtract = "loop"
  /\ sentIdx > Len(sentences)
  /\ pcExtract' = "done"
  /\ UNCHANGED <<text, max_tasks, min_confidence, sentences, sentIdx, tasks, scored,
                 extractOthers>>

NextExtract == ExtractCall \/ ExtractLoopStep \/ ExtractExhausted

\* a run of 400 characters that carry no signal
Filler == [i \in 1..LongSentenceLen |-> "#"]

\* the phrases the scored texts are assembled from
ScoreParts ==
  << <<"A", "l", "i", "c", "e", " ", "w", "i", "l", "l">>,
     <<" ", "f", "i", "x", " ", "t", "h", "e", " ", "i", "n", "d", "e", "x">>,
     <<" ", "b", "y", " ", "F", "r", "i", "d", "a", "y">>,
     <<" ">>,
     <<"i", "f">>,
     <<" ", "m", "a", "y">>,
     <<"P", "r", "e", "p", "a", "r", "e">>,
     <<"w", "h", "e", "n", " ", "w", "e">>,
     <<".", " ">>,
     <<" ", "m", "i", "g", "h", "t">>,
     Filler >>

ScoreTexts ==
  {Concat([k \in DOMAIN idx |-> ScoreParts[idx[k]]]) :
     idx \in SeqsUpTo(DOMAIN ScoreParts, MaxParts)}

\* "Alice will fix the index by Friday. "
SentenceOwnerDueVerb ==
  <<"A", "l", "i", "c", "e", " ", "w", "i", "l", "l", " ", "f", "i", "x",
    " ", "t", "h", "e", " ", "i", "n", "d", "e", "x", " ", "b", "y", " ",
    "F", "r", "i", "d", "a", "y", ".", " ">>
\* "The weather is nice today. "
SentenceNoSignal ==
  <<"T", "h", "e", " ", "w", "e", "a", "t", "h", "e", "r", " ", "i", "s",
    " ", "n", "i", "c", "e", " ", "t", "o", "d", "a", "y", ".", " ">>
\* "Alice will attend. "
SentenceOwnerOnly ==
  <<"A", "l", "i", "c", "e", " ", "w", "i", "l", "l", " ", "a", "t", "t",
    "e", "n", "d", ".", " ">>
\* "If the API fails we might delay the release. "
SentenceConditional ==
  <<"I", "f", " ", "t", "h", "e", " ", "A", "P", "I", " ", "f", "a", "i",
    "l", "s", " ", "w", "e", " ", "m", "i", "g", "h", "t", " ", "d", "e",
    "l", "a", "y", " ", "t", "h", "e", " ", "r", "e", "l", "e", "a", "s",
    "e", ".", " ">>
\* "Please fix it! "
SentenceVerbOnly ==
  <<"P", "l", "e", "a", "s", "e", " ", "f", "i", "x", " ", "i", "t", "!",
    " ">>

CannedSentences ==
  <<SentenceOwnerDueVerb, SentenceNoSignal, SentenceOwnerOnly,
    SentenceConditional, SentenceVerbOnly>>

ExtractTexts ==
  {Concat([k \in DOMAIN idx |-> CannedSentences[idx[k]]]) :
     idx \in SeqsUpTo(DOMAIN CannedSentences, MaxSentences)}

\* thresholds a caller passes, in tenths
MinConfidences == {0, 1, DefaultMinConfidence, 5}

ExtractIdle ==
  /\ text = <<>> /\ max_tasks = 0 /\ min_confidence = 0 /\ pcExtract = "idle"
  /\ sentences = <<>> /\ sentIdx = 0 /\ tasks = <<>> /\ scored = <<>>

\* a call extract_tasks_structured(text, max_tasks, min_confidence)
ExtractEntry(texts, maxs, mins) ==
  /\ text \in texts
  /\ max_tasks \in maxs
  /\ min_confidence \in mins
  /\ pcExtract = "call"
  /\ sentences = <<>> /\ sentIdx = 0 /\ tasks = <<>> /\ scored = <<>>

(***************************************************************************)
(* agents/mistral_summarizer.py: the items of a parsed object, dedup_list  *)
(***************************************************************************)

\* a Python str
Str(s) == [t |-> "str", v |-> s]
\* a key of a dict with its value
Pair(key, val) == [k |-> key, val |-> val]
\* a Python dict: its (key, value) pairs in insertion order, keys distinct
Dict(pairs) == [t |-> "dict", v |-> pairs]
\* a Python list
List(xs) == [t |-> "list", v |-> xs]
\* None, True, False as JSON writes them
Lit(s) == [t |-> "lit", v |-> s]

\* the characters of the model in code-point order
AsciiOrder ==
  <<"\t", "\n", "\r", " ", "!", "\"", "#", "'", "(", ")", ",", "-", ".", "/">>
  \o <<"0", "1", "2", "3", "4", "5", "6", "7", "8", "9", ":", "<", ">", "?">>
  \o UpperLetters \o <<"[", "\\", "]", "_">> \o LowerLetters \o <<"{", "}">>

Ord(c) == CHOOSE i \in DOMAIN AsciiOrder : AsciiOrder[i] = c

\* a < b on Python strings
StrLess(a, b) ==
  \E i \in 1..(Min(Len(a), Len(b)) + 1) :
    /\ \A j \in 1..(i - 1) : a[j] = b[j]
    /\ \/ i > Len(a) /\ i <= Len(b)
       \/ i <= Len(a) /\ i <= Len(b) /\ Ord(a[i]) < Ord(b[i])

\* the pairs of a dict ordered by key, as sort_keys=True writes them
SortedPairs(pairs) ==
  LET n == Len(pairs)
      rank(p) == 1 + Cardinality({q \in 1..n : StrLess(pairs[q].k, pairs[p].k)})
  IN  [r \in 1..n |-> pairs[CHOOSE p \in 1..n : rank(p) = r]]

\* sep.join(parts)
RECURSIVE JoinWith(_, _)
JoinWith(sep, parts) ==
  IF parts = <<>> THEN <<>>
  ELSE IF Len(parts) = 1 THEN parts[1]
  ELSE parts[1] \o sep \o JoinWith(sep, Tail(parts))

\* one character of a string as json.dumps writes it
EscapeChar(c) ==
  CASE c = "\"" -> <<"\\", "\"">>
    [] c = "\\" -> <<"\\", "\\">>
    [] c = "\n" -> <<"\\", "n">>
    [] c = "\r" -> <<"\\", "r">>
    [] c = "\t" -> <<"\\", "t">>
    [] OTHER -> <<c>>

\* a string as json.dumps writes it
Quote(s) ==
  <<"\"">> \o Flatten([i \in 1..Len(s) |-> EscapeChar(s[i])], 1, Len(s)) \o <<"\"">>

\* json.dumps(x, sort_keys=True)
RECURSIVE json_dumps_sorted(_)
json_dumps_sorted(x) ==
  CASE x.t = "str" -> Quote(x.v)
    [] x.t = "lit" -> x.v
    [] x.t = "list" ->
         <<"[">> \o JoinWith(<<",", " ">>,
                             [i \in 1..Len(x.v) |-> json_dumps_sorted(x.v[i])])
         \o <<"]">>
    [] x.t = "dict" ->
         LET ps == SortedPairs(x.v)
         IN  <<"{">> \o JoinWith(<<",", " ">>,
                                 [i \in 1..Len(ps) |->
                                    Quote(ps[i].k) \o <<":", " ">>
                                    \o json_dumps_sorted(ps[i].val)])
             \o <<"}">>

\* the key of an item with nothing normalised: a dict written in insertion
\* order, a string as it is
RawKey(item) ==
  IF item.t = "dict"
  THEN <<"{">> \o JoinWith(<<",", " ">>,
                           [i \in 1..Len(item.v) |->
                              Quote(item.v[i].k) \o <<":", " ">>
                              \o json_dumps_sorted(item.v[i].val)])
       \o <<"}">>
  ELSE item.v

\* key = json.dumps(item, sort_keys=True) if isinstance(item, dict)
\*       else str(item).strip().lower()
\* (the items that reach dedup_list are dicts and strings)
canon_key(item) ==
  IF item.t = "dict" THEN json_dumps_sorted(item) ELSE LowerSeq(Strip(item.v))

\* the loop of dedup_list from item i on
RECURSIVE DedupFrom(_, _, _, _)
DedupFrom(its, i, seen, kept) ==
  IF i > Len(its) THEN kept
  ELSE LET key == canon_key(its[i])
       IN  IF key \notin seen
           THEN DedupFrom(its, i + 1, seen \cup {key}, Append(kept, its[i]))
           ELSE DedupFrom(its, i + 1, seen, kept)

\* dedup_list
dedup_list(its) == DedupFrom(its, 1, {}, <<>>)

\* dedup_list(items)
DedupCall ==
  /\ pcDedup = "call"
  /\ deduped' = dedup_list(items)
  /\ pcDedup' = "once"
  /\ UNCHANGED <<items, dedupedTwice, dedupOthers>>

\* dedup_list applied to its own result
DedupAgain ==
  /\ pcDedup = "once"
  /\ dedupedTwice' = dedup_list(deduped)
  /\ pcDedup' = "done"
  /\ UNCHANGED <<items, deduped, dedupOthers>>

NextDedup == DedupCall \/ DedupAgain

KeyTask == <<"t", "a", "s", "k">>
KeyOwner == <<"o", "w", "n", "e", "r">>

\* summary bullets and action items as a parsed object carries them
DedupItems ==
  { Str(<<"a">>), Str(<<"A", " ">>), Str(<<" ", "a">>), Str(<<"b">>), Str(<<>>),
    Dict(<<Pair(KeyTask, Str(<<"a">>)), Pair(KeyOwner, Str(<<"b">>))>>),
    Dict(<<Pair(KeyOwner, Str(<<"b">>)), Pair(KeyTask, Str(<<"a">>))>>),
    Dict(<<Pair(KeyTask, Str(<<"a">>))>>),
    Str(<<"{", "\"", "t", "a", "s", "k", "\"", ":", " ", "\"", "a", "\"", "}">>) }

DedupIdle ==
  items = <<>> /\ pcDedup = "idle" /\ deduped = <<>> /\ dedupedTwice = <<>>

\* a call dedup_list(items)
DedupEntry ==
  /\ items \in SeqsUpTo(DedupItems, MaxItems)
  /\ pcDedup = "call" /\ deduped = <<>> /\ dedupedTwice = <<>>

(***************************************************************************)
(* agents/mistral_summarizer.py: extract_last_json                         *)
(***************************************************************************)

\* an optional value: None, or the value
None == <<>>
Some(x) == <<x>>

\* s.count(c)
Count(s, c) == Cardinality({i \in 1..Len(s) : s[i] = c})

\* the "for i, c in enumerate(text)" loop from character from on (the
\* characters that are no brace change nothing and are passed over in one
\* step); start is 0 for None; the result is the pairs of starts and ends
RECURSIVE ScanFrom(_, _, _, _, _)
ScanFrom(txt, from, brace_count, start, blocks) ==
  LET i == RunEndNot(txt, from, {"{", "}"}) + 1
  IN  IF i > Len(txt) THEN blocks
      ELSE IF txt[i] = "{"
      THEN ScanFrom(txt, i + 1, brace_count + 1,
                    IF brace_count = 0 THEN i ELSE start, blocks)
      ELSE IF brace_count - 1 = 0 /\ start # 0
      THEN ScanFrom(txt, i + 1, brace_count - 1, 0, Append(blocks, <<start, i>>))
      ELSE ScanFrom(txt, i + 1, brace_count - 1, start, blocks)

\* the replacement of the quotes made also when the two counts are equal
FixQuotesOnTie(s) ==
  IF Count(s, "'") >= Count(s, "\"")
  THEN [i \in 1..Len(s) |-> IF s[i] = "'" THEN "\"" ELSE s[i]]
  ELSE s

\* fixed.replace("'", '"') if fixed.count("'") > fixed.count('"')
FixQuotes(s) ==
  IF Count(s, "'") > Count(s, "\"")
  THEN [i \in 1..Len(s) |-> IF s[i] = "'" THEN "\"" ELSE s[i]]
  ELSE s

\* [ \t\r\n]
JsonSpace == {" ", "\t", "\r", "\n"}

\* a match of r',([ \t\r\n]*[}\]])' starts at i
TrailingCommaAt(s, i) ==
  /\ s[i] = ","
  /\ LET j == RunEnd(s, i + 1, JsonSpace) + 1
     IN  j <= Len(s) /\ s[j] \in {"}", "]"}

\* re.sub(r',([ \t\r\n]*[}\]])', r'\1', fixed)
DropTrailingCommas(s) ==
  Flatten([i \in 1..Len(s) |-> IF TrailingCommaAt(s, i) THEN <<>> ELSE <<s[i]>>],
          1, Len(s))

\* the two repairs applied to the candidate
Repair(candidate) == DropTrailingCommas(FixQuotes(candidate))

\* the whole text is taken for the candidate
WholeText(txt) == Some(txt)

\* candidate = text[starts[-1]:ends[-1]], None when no block was recorded
Candidate(txt) ==
  LET blocks == ScanFrom(txt, 1, 0, 0, <<>>)
  IN  IF blocks # <<>>
      THEN LET last == blocks[Len(blocks)]
           IN  Some(SubSeq(txt, last[1], last[2]))
      ELSE None

\* extract_last_json
extract_last_json(txt) ==
  LET candidate == Candidate(txt)
  IN  IF candidate # None THEN Some(Repair(candidate[1])) ELSE None

\* json_str = extract_last_json(mistral_output)
ExtractLastJsonCall ==
  /\ pcJson = "call"
  /\ json_str' = extract_last_json(mistral_output)
  /\ pcJson' = "done"
  /\ UNCHANGED <<mistral_output, jsonOthers>>

NextJson == ExtractLastJsonCall

\* the characters the scanned texts are made of
JsonChars == {"{", "}", "a", ",", " ", "'", "\"", "]"}

\* "Sure. {'summary': ['a',]} and then json: {"summary": ["b"], } ok"
SampleTwoObjects ==
  <<"S", "u", "r", "e", ".", " ", "{", "'", "s", "u", "m", "m", "a", "r", "y",
    "'", ":", " ", "[", "'", "a", "'", ",", "]", "}", " ", "a", "n", "d", " ",
    "t", "h", "e", "n", " ", "j", "s", "o", "n", ":", " ", "{", "\"",
    "s", "u", "m", "m", "a", "r", "y", "\"", ":", " ", "[", "\"", "b", "\"",
    "]", ",", " ", "}", " ", "o", "k">>

\* "Close with }. {"summary": ["b"]}"
SampleStrayCloser ==
  <<"C", "l", "o", "s", "e", " ", "w", "i", "t", "h", " ", "}", ".", " ", "{",
    "\"", "s", "u", "m", "m", "a", "r", "y", "\"", ":", " ", "[", "\"", "b",
    "\"", "]", "}">>

\* {'summary': ['x',]}
SampleSingleQuoted ==
  <<"{", "'", "s", "u", "m", "m", "a", "r", "y", "'", ":", " ", "[", "'",
  "x", "'", ",", "]", "}">>

JsonTexts ==
  SeqsUpTo(JsonChars, MaxJsonLen)
  \cup {SampleTwoObjects, SampleStrayCloser, SampleSingleQuoted}

JsonIdle == mistral_output = <<>> /\ json_str = None /\ pcJson = "idle"

\* a call extract_last_json(text)
JsonEntry == mistral_output \in JsonTexts /\ json_str = None /\ pcJson = "call"

(***************************************************************************)
(* agents/mistral_summarizer.py: json.loads on the recovered candidate     *)
(* (strings, arrays, objects and the literals null, true, false; the       *)
(* modelled outputs carry no numbers)                                      *)
(***************************************************************************)

\* a step of the decoder: it failed, or read a value and stopped before nxt
Fail == [ok |-> FALSE, val |-> Lit(<<>>), nxt |-> 0]
Ok(v, n) == [ok |-> TRUE, val |-> v, nxt |-> n]

\* the index after the whitespace that starts at i
SkipWs(s, i) == RunEnd(s, i, JsonSpace) + 1

\* characters a JSON string may not contain unescaped
ControlChars == {"\t", "\n", "\r"}

\* the character an escape stands for
Unescape(c) ==
  CASE c = "n" -> "\n"
    [] c = "r" -> "\r"
    [] c = "t" -> "\t"
    [] OTHER -> c

\* the body of a string from index from on, up to its closing quote (a run
\* of plain characters is taken in one step)
RECURSIVE ScanString(_, _, _)
ScanString(s, from, acc) ==
  LET i == RunEndNot(s, from, {"\"", "\\"} \cup ControlChars) + 1
      got == acc \o SubSeq(s, from, i - 1)
  IN  IF i > Len(s) THEN Fail
      ELSE IF s[i] = "\"" THEN Ok(Str(got), i + 1)
      ELSE IF s[i] \in ControlChars THEN Fail
      ELSE IF i + 1 <= Len(s) /\ s[i + 1] \in {"\"", "\\", "/", "n", "r", "t"}
      THEN ScanString(s, i + 2, Append(got, Unescape(s[i + 1])))
      ELSE Fail

\* d[key] = val on the pairs of a dict: a key already present keeps its place
DictSet(pairs, key, val) ==
  IF \E i \in DOMAIN pairs : pairs[i].k = key
  THEN [i \in DOMAIN pairs |-> IF pairs[i].k = key THEN Pair(key, val) ELSE pairs[i]]
  ELSE Append(pairs, Pair(key, val))

RECURSIVE ParseValue(_, _)
RECURSIVE ParseMembers(_, _, _)
RECURSIVE ParseElements(_, _, _)

\* the members of an object from the key expected at i on
ParseMembers(s, i, pairs) ==
  IF i > Len(s) \/ s[i] # "\"" THEN Fail
  ELSE LET key == ScanString(s, i + 1, <<>>)
       IN  IF ~key.ok THEN Fail
           ELSE LET colon == SkipWs(s, key.nxt)
                IN  IF colon > Len(s) \/ s[colon] # ":" THEN Fail
                    ELSE LET val == ParseValue(s, SkipWs(s, colon + 1))
                         IN  IF ~val.ok THEN Fail
                             ELSE LET e == SkipWs(s, val.nxt)
                                      added == DictSet(pairs, key.val.v, val.val)
                                  IN  IF e > Len(s) THEN Fail
                                      ELSE IF s[e] = "}" THEN Ok(Dict(added), e + 1)
                                      ELSE IF s[e] = ","
                                      THEN ParseMembers(s, SkipWs(s, e + 1), added)
                                      ELSE Fail

\* the elements of an array from the value expected at i on
ParseElements(s, i, elems) ==
  LET val == ParseValue(s, i)
  IN  IF ~val.ok THEN Fail
      ELSE LET e == SkipWs(s, val.nxt)
               added == Append(elems, val.val)
           IN  IF e > Len(s) THEN Fail
               ELSE IF s[e] = "]" THEN Ok(List(added), e + 1)
               ELSE IF s[e] = "," THEN ParseElements(s, SkipWs(s, e + 1), added)
               ELSE Fail

\* the value that starts at i
ParseValue(s, i) ==
  IF i > Len(s) THEN Fail
  ELSE IF s[i] = "\"" THEN ScanString(s, i + 1, <<>>)
  ELSE IF s[i] = "{"
  THEN LET m == SkipWs(s, i + 1)
       IN  IF m <= Len(s) /\ s[m] = "}" THEN Ok(Dict(<<>>), m + 1)
           ELSE ParseMembers(s, m, <<>>)
  ELSE IF s[i] = "["
  THEN LET m == SkipWs(s, i + 1)
       IN  IF m <= Len(s) /\ s[m] = "]" THEN Ok(List(<<>>), m + 1)
           ELSE ParseElements(s, m, <<>>)
  ELSE IF MatchAt(s, i, <<"n", "u", "l", "l">>) THEN Ok(Lit(<<"n", "u", "l", "l">>), i + 4)
  ELSE IF MatchAt(s, i, <<"t", "r", "u", "e">>) THEN Ok(Lit(<<"t", "r", "u", "e">>), i + 4)
  ELSE IF MatchAt(s, i, <<"f", "a", "l", "s", "e">>)
  THEN Ok(Lit(<<"f", "a", "l", "s", "e">>), i + 5)
  ELSE Fail

\* json.loads(s): the value, or a failure (JSONDecodeError)
json_loads(s) ==
  LET val == ParseValue(s, SkipWs(s, 1))
  IN  IF val.ok /\ SkipWs(s, val.nxt) > Len(s) THEN val ELSE Fail

(***************************************************************************)
(* agents/mistral_summarizer.py: summarize_with_mistral                    *)
(***************************************************************************)

\* len(transcript.split()) < 10
MinWords == 10
\* chunk_text(transcript, max_words=1500)
ChunkWords == 1500

\* bool(x)
Truthy(x) ==
  IF x.t = "lit" THEN x.v = <<"t", "r", "u", "e">> ELSE x.v # <<>>

\* s.split() from index i on
RECURSIVE WordsFrom(_, _)
WordsFrom(s, i) ==
  LET a == RunEnd(s, i, SpaceSet) + 1
  IN  IF a > Len(s) THEN <<>>
      ELSE LET b == RunEndNot(s, a, SpaceSet)
           IN  <<SubSeq(s, a, b)>> \o WordsFrom(s, b + 1)

\* s.split()
Split(s) == WordsFrom(s, 1)

\* len(s.split()): the number of indexes at which a word starts
WordCount(s) ==
  Cardinality({i \in 1..Len(s) :
                 s[i] \notin SpaceSet /\ (i = 1 \/ s[i - 1] \in SpaceSet)})

\* chunk_text(text, max_words=1500)
chunk_text(s) ==
  LET words == Split(s)
      n == (Len(words) + ChunkWords - 1) \div ChunkWords
  IN  [c \in 1..n |->
         JoinWith(<<" ">>, SubSeq(words, (c - 1) * ChunkWords + 1,
                                  Min(c * ChunkWords, Len(words))))]

\* t and isinstance(t, str) and len(t.split()) >= 10
ValidChunk(x) == Truthy(x) /\ x.t = "str" /\ WordCount(x.v) >= MinWords

\* not transcript or not isinstance(transcript, str)
\* or len(transcript.split()) < 10
TooShort(x) == ~Truthy(x) \/ x.t # "str" \/ WordCount(x.v) < MinWords

\* the chunks the loop runs over, for a list and for a string
ChunksOf(x) ==
  IF x.t = "list" THEN SelectSeq(x.v, ValidChunk)
  ELSE [c \in DOMAIN chunk_text(x.v) |-> Str(chunk_text(x.v)[c])]

\* the call returns before the loop
ReturnsTooShort(x) ==
  IF x.t = "list" THEN ChunksOf(x) = <<>> ELSE TooShort(x)
\* Transcript too short for summarization.
TooShortText ==
  <<"T", "r", "a", "n", "s", "c", "r", "i", "p", "t", " ", "t", "o", "o",
    " ", "s", "h", "o", "r", "t", " ", "f", "o", "r", " ", "s", "u", "m",
    "m", "a", "r", "i", "z", "a", "t", "i", "o", "n", ".">>

\* the result returned for a transcript that is too short
TooShortReturn == [summary_text |-> Str(TooShortText), action_items |-> List(<<>>)]
KeySummary == <<"s", "u", "m", "m", "a", "r", "y">>
KeyActionItems == <<"a", "c", "t", "i", "o", "n", "_", "i", "t", "e", "m", "s">>
KeyDecisions == <<"d", "e", "c", "i", "s", "i", "o", "n", "s">>
KeyRisks == <<"r", "i", "s", "k", "s">>
KeyFollowUps == <<"f", "o", "l", "l", "o", "w", "_", "u", "p", "_", "q", "u", "e", "s", "t", "i", "o", "n", "s">>

\* d.get(key, [])
Get(d, key) ==
  IF \E i \in DOMAIN d.v : d.v[i].k = key
  THEN d.v[CHOOSE i \in DOMAIN d.v : d.v[i].k = key].val
  ELSE List(<<>>)

\* x if isinstance(x, list) else [x]
AsList(x) == IF x.t = "list" THEN x.v ELSE <<x>>

\* the texts is_valid_summary_item rejects by equality
SummaryPlaceholders ==
  { <<"p", "o", "i", "n", "t", " ", "1">>, <<"p", "o", "i", "n", "t", " ", "2">>,
    <<"p", "o", "i", "n", "t", "1">>, <<"p", "o", "i", "n", "t", "2">>,
    <<>>, <<"-">>,
    <<"<", "s", "u", "m", "m", "a", "r", "y", " ", "b", "u", "l", "l", "e", "t", " ", "1", ">">>,
    <<"<", "s", "u", "m", "m", "a", "r", "y", " ", "b", "u", "l", "l", "e", "t", " ", "2", ">">> }

\* is_valid_summary_item
is_valid_summary_item(item) ==
  IF ~Truthy(item) \/ item.t # "str" THEN FALSE
  ELSE LET s == LowerSeq(Strip(item.v))
       IN  IF s \in SummaryPlaceholders THEN FALSE
           ELSE IF \/ StartsWith(s, <<"p", "o", "i", "n", "t", " ">>)
                   \/ StartsWith(s, <<"<", "s", "u", "m", "m", "a", "r", "y">>)
           THEN FALSE
           ELSE IF Contains(s, <<"<">>) /\ Contains(s, <<">">>) THEN FALSE
           ELSE TRUE

\* the action-item filter without the trimming of string values
UntrimmedActionItem(item) ==
  IF ~Truthy(item) THEN FALSE
  ELSE IF item.t = "dict"
  THEN IF \E i \in DOMAIN item.v :
            /\ item.v[i].val.t = "str"
            /\ \/ item.v[i].val.v = <<>>
               \/ StartsWith(item.v[i].val.v, <<"<">>)
       THEN FALSE
       ELSE \E i \in DOMAIN item.v : Truthy(item.v[i].val)
  ELSE IF item.t = "str"
  THEN ~(item.v = <<>> \/ StartsWith(item.v, <<"<">>))
  ELSE FALSE

\* is_valid_action_item
is_valid_action_item(item) ==
  IF ~Truthy(item) THEN FALSE
  ELSE IF item.t = "dict"
  THEN IF \E i \in DOMAIN item.v :
            /\ item.v[i].val.t = "str"
            /\ \/ Strip(item.v[i].val.v) = <<>>
               \/ StartsWith(Strip(item.v[i].val.v), <<"<">>)
       THEN FALSE
       ELSE \E i \in DOMAIN item.v : Truthy(item.v[i].val)
  ELSE IF item.t = "str"
  THEN ~(Strip(item.v) = <<>> \/ StartsWith(Strip(item.v), <<"<">>))
  ELSE FALSE

\* the locals of one pass of the chunk loop before it has generated anything
NoLocals ==
  [parsed_ok |-> FALSE, summary_text |-> List(<<>>), action_items |-> List(<<>>),
   decisions |-> List(<<>>), risks |-> List(<<>>),
   follow_up_questions |-> List(<<>>), filtered_summaries |-> <<>>,
   filtered_action_items |-> <<>>, filtered_decisions |-> <<>>]

\* the locals of one pass of the chunk loop when line 184 is reached, for
\* the recovered json_str: the fields stay [] when nothing was recovered or
\* json.loads failed
ChunkLocals(js) ==
  LET parsed == IF js # None /\ js[1] # <<>> THEN json_loads(js[1]) ELSE Fail
      field(key) == IF parsed.ok THEN Get(parsed.val, key) ELSE List(<<>>)
  IN  [parsed_ok |-> parsed.ok,
       summary_text |-> field(KeySummary),
       action_items |-> field(KeyActionItems),
       decisions |-> field(KeyDecisions),
       risks |-> field(KeyRisks),
       follow_up_questions |-> field(KeyFollowUps),
       filtered_summaries |->
         SelectSeq(AsList(field(KeySummary)), is_valid_summary_item),
       filtered_action_items |->
         SelectSeq(AsList(field(KeyActionItems)), is_valid_action_item),
       filtered_decisions |->
         SelectSeq(AsList(field(KeyDecisions)), is_valid_summary_item)]

\* the names bound when line 184 runs: the module's imports and function,
\* the parameters and the locals assigned on lines 5-183
NamesAtRisksFilter ==
  {"re", "json", "torch", "summarize_with_mistral", "mistral_tokenizer",
   "mistral_model", "transcript", "meeting_id", "transcript_chunks",
   "chunk_text", "all_summaries", "all_action_items", "idx", "chunk",
   "mistral_prompt", "device", "encoded", "input_ids", "attention_mask",
   "summary_ids", "mistral_output", "extract_last_json", "json_str",
   "summary_text", "action_items", "decisions", "risks",
   "follow_up_questions", "parsed", "is_valid_summary_item",
   "is_valid_action_item", "filtered_summaries", "filtered_action_items",
   "filtered_decisions"}

\* line 184: (risks if isinstance(r, list) else [risks]) is evaluated in the
\* function, outside the comprehension that binds r, and raises NameError
\* when r is not bound there
RisksFilterRaises == "r" \notin NamesAtRisksFilter

\* the pieces a generated output is assembled from
\* Here: 
OutputProse ==
  <<"H", "e", "r", "e", ":", " ">>
\* {"summary": ["We shipped", "we shipped "], "action_items": [{"task": "fix", "owner": "Bob"}]}
OutputObject ==
  <<"{", "\"", "s", "u", "m", "m", "a", "r", "y", "\"", ":", " ", "[",
    "\"", "W", "e", " ", "s", "h", "i", "p", "p", "e", "d", "\"", ",", " ",
    "\"", "w", "e", " ", "s", "h", "i", "p", "p", "e", "d", " ", "\"", "]",
    ",", " ", "\"", "a", "c", "t", "i", "o", "n", "_", "i", "t", "e", "m",
    "s", "\"", ":", " ", "[", "{", "\"", "t", "a", "s", "k", "\"", ":",
    " ", "\"", "f", "i", "x", "\"", ",", " ", "\"", "o", "w", "n", "e",
    "r", "\"", ":", " ", "\"", "B", "o", "b", "\"", "}", "]", "}">>
\* {"summary": ["<summary bullet 1>"], "action_items": [{"task": "<task>"}]}
OutputPromptExample ==
  <<"{", "\"", "s", "u", "m", "m", "a", "r", "y", "\"", ":", " ", "[",
    "\"", "<", "s", "u", "m", "m", "a", "r", "y", " ", "b", "u", "l", "l",
    "e", "t", " ", "1", ">", "\"", "]", ",", " ", "\"", "a", "c", "t", "i",
    "o", "n", "_", "i", "t", "e", "m", "s", "\"", ":", " ", "[", "{", "\"",
    "t", "a", "s", "k", "\"", ":", " ", "\"", "<", "t", "a", "s", "k", ">",
    "\"", "}", "]", "}">>
\* {'summary': ['Plan',], 'risks': ['Delay']}
OutputSingleQuoted ==
  <<"{", "'", "s", "u", "m", "m", "a", "r", "y", "'", ":", " ", "[", "'",
    "P", "l", "a", "n", "'", ",", "]", ",", " ", "'", "r", "i", "s", "k",
    "s", "'", ":", " ", "[", "'", "D", "e", "l", "a", "y", "'", "]", "}">>
\* {"summary": "point 1", "decisions": ["Go"]
OutputUnclosed ==
  <<"{", "\"", "s", "u", "m", "m", "a", "r", "y", "\"", ":", " ", "\"",
    "p", "o", "i", "n", "t", " ", "1", "\"", ",", " ", "\"", "d", "e", "c",
    "i", "s", "i", "o", "n", "s", "\"", ":", " ", "[", "\"", "G", "o",
    "\"", "]">>
\*  and 
OutputJoin ==
  <<" ", "a", "n", "d", " ">>

OutputParts ==
  <<OutputProse, OutputObject, OutputPromptExample, OutputSingleQuoted,
    OutputUnclosed, OutputJoin, <<"}">>, <<"{">> >>

\* the texts the model generates
ModelOutputs ==
  {Concat([k \in DOMAIN idx |-> OutputParts[idx[k]]]) :
     idx \in SeqsUpTo(DOMAIN OutputParts, MaxOutputParts)}

\* summarize_with_mistral, entry: the guards on the transcript and the
\* chunking
MistralCall ==
  /\ pcMistral = "call"
  /\ IF ReturnsTooShort(transcript)
     THEN /\ mistralReturn' = Some(TooShortReturn)
          /\ pcMistral' = "returned"
          /\ UNCHANGED transcript_chunks
     ELSE /\ transcript_chunks' = ChunksOf(transcript)
          /\ pcMistral' = "loop"
          /\ UNCHANGED mistralReturn
  /\ UNCHANGED <<transcript, chunkLocals, mistralError, mistral_output, json_str,
                 pcJson, mistralOthers>>

\* one pass of "for idx, chunk in enumerate(transcript_chunks)": the model
\* generates an output, the last JSON object is recovered, parsed and
\* filtered, and line 184 raises; lines 185-239 are not reached
MistralChunk ==
  /\ pcMistral = "loop"
  /\ transcript_chunks # <<>>
  /\ RisksFilterRaises
  /\ \E out \in ModelOutputs :
       LET recovered == extract_last_json(out)
       IN  /\ mistral_output' = out
           /\ json_str' = recovered
           /\ chunkLocals' = ChunkLocals(recovered)
  /\ mistralError' = "NameError"
  /\ pcMistral' = "raised"
  /\ UNCHANGED <<transcript, transcript_chunks, mistralReturn, pcJson,
                 mistralOthers>>

\* one pass of the chunk loop in which the tokenizer or generate raises
MistralInferenceError ==
  /\ pcMistral = "loop"
  /\ transcript_chunks # <<>>
  /\ mistralError' = "InferenceError"
  /\ pcMistral' = "raised"
  /\ UNCHANGED <<transcript, transcript_chunks, chunkLocals, mistralReturn,
                 mistral_output, json_str, pcJson, mistralOthers>>

NextMistral == MistralCall \/ MistralChunk \/ MistralInferenceError

\* a transcript of n one-letter words
Talk(n) == [i \in 1..(2 * n - 1) |-> IF i % 2 = 1 THEN "w" ELSE " "]

\* the transcripts given to summarize_with_mistral: strings around the
\* 10-word limit, None, and lists of chunks
MistralTranscripts ==
  {Str(Talk(n)) : n \in {1, MinWords - 1, MinWords, MinWords + 2}}
  \cup {Str(<<>>), Lit(<<"n", "u", "l", "l">>), List(<<>>),
        List(<<Str(Talk(MinWords - 1))>>),
        List(<<Str(Talk(MinWords)), Str(Talk(1)), Str(Talk(MinWords + 2))>>)}

MistralIdle ==
  /\ transcript = Str(<<>>) /\ pcMistral = "idle" /\ transcript_chunks = <<>>
  /\ chunkLocals = NoLocals /\ mistralReturn = None /\ mistralError = "none"

\* a call summarize_with_mistral(tokenizer, model, transcript, meeting_id)
MistralEntry ==
  /\ transcript \in MistralTranscripts /\ pcMistral = "call"
  /\ transcript_chunks = <<>> /\ chunkLocals = NoLocals
  /\ mistralReturn = None /\ mistralError = "none"

(***************************************************************************)
(* agents/summarization_agent.py, tools/summarization_tool.py              *)
(***************************************************************************)

\* full_transcript[:300]
ExcerptLen == 300

\* bool(a) on an optional text or list: None and the empty value are falsy
IsSet(a) == a # None /\ a[1] # <<>>

\* a or b
OrElse(a, b) == IF IsSet(a) THEN a ELSE b

\* auto
ModeAuto ==
  <<"a", "u", "t", "o">>
\* bart
ModeBart ==
  <<"b", "a", "r", "t">>
\* mistral
ModeMistral ==
  <<"m", "i", "s", "t", "r", "a", "l">>
\* No summary generated.
NoSummaryText ==
  <<"N", "o", " ", "s", "u", "m", "m", "a", "r", "y", " ", "g", "e", "n",
    "e", "r", "a", "t", "e", "d", ".">>
\* ...
Ellipsis ==
  <<".", ".", ".">>
\*  [BART error: 
BartErrorOpen ==
  <<" ", "[", "B", "A", "R", "T", " ", "e", "r", "r", "o", "r", ":", " ">>
\*  [Mistral/BART error: 
BothErrorOpen ==
  <<" ", "[", "M", "i", "s", "t", "r", "a", "l", "/", "B", "A", "R", "T",
    " ", "e", "r", "r", "o", "r", ":", " ">>
\* str(e) of the FileNotFoundError of get_mistral_model (its start)
MistralPathMessage ==
  <<"M", "i", "s", "t", "r", "a", "l", " ", "m", "o", "d", "e", "l", " ",
    "p", "a", "t", "h", " ", "n", "o", "t", " ", "f", "o", "u", "n", "d">>
\* str(e) of the RuntimeError of get_mistral_model (its start)
NoGpuMessage ==
  <<"N", "o", " ", "C", "U", "D", "A", " ", "G", "P", "U", " ", "d", "e",
    "t", "e", "c", "t", "e", "d", ".">>
\* str(e) of the NameError of summarize_with_mistral
NameErrorMessage ==
  <<"n", "a", "m", "e", " ", "'", "r", "'", " ", "i", "s", " ", "n", "o",
    "t", " ", "d", "e", "f", "i", "n", "e", "d">>
\* str(e) of an exception raised by a tokenizer or a model
InferenceMessage ==
  <<"i", "n", "f", "e", "r", "e", "n", "c", "e", " ", "f", "a", "i", "l",
    "e", "d">>
\* str(e) of the FileNotFoundError of get_bart_model (its start)
BartPathMessage ==
  <<"B", "A", "R", "T", " ", "m", "o", "d", "e", "l", " ", "p", "a", "t",
    "h", " ", "n", "o", "t", " ", "f", "o", "u", "n", "d">>
\* str(e) of the TypeError of "\n".join (its start)
JoinErrorMessage ==
  <<"s", "e", "q", "u", "e", "n", "c", "e", " ", "i", "t", "e", "m", " ",
    "0", ":", " ", "e", "x", "p", "e", "c", "t", "e", "d", " ", "s", "t",
    "r", " ", "i", "n", "s", "t", "a", "n", "c", "e">>
\* a summary text returned by summarize_with_bart
BartSummaryText ==
  <<"T", "h", "e", " ", "t", "e", "a", "m", " ", "a", "g", "r", "e", "e",
    "d", " ", "o", "n", " ", "t", "h", "e", " ", "p", "l", "a", "n", ".">>
\* an action item returned by summarize_with_bart
BartActionText ==
  <<"S", "e", "n", "d", " ", "t", "h", "e", " ", "r", "e", "p", "o", "r",
    "t">>

\* SummarizationAgent(): self.mode of the agent the tool builds
AgentMode == ModeAuto

\* str(e) for each way an attempt fails
ErrorText(kind) ==
  CASE kind = "path_missing" -> MistralPathMessage
    [] kind = "no_gpu" -> NoGpuMessage
    [] kind = "name_error" -> NameErrorMessage
    [] kind = "inference_error" -> InferenceMessage
    [] kind = "bart_path_missing" -> BartPathMessage

\* an attempt that raised, and one that returned its summary object
Raised(kind) ==
  [returned |-> FALSE, kind |-> kind, summary_text |-> Lit(<<>>),
   action_items |-> List(<<>>)]
Returned(obj) ==
  [returned |-> TRUE, kind |-> "returned", summary_text |-> obj.summary_text,
   action_items |-> obj.action_items]

\* summarize_with_bart(...) returning: a summary object with a summary text,
\* which may be empty, and a list of action items
BartReturns ==
  { [summary_text |-> Str(<<>>), action_items |-> List(<<>>)],
    [summary_text |-> Str(BartSummaryText),
     action_items |-> List(<<Str(BartActionText)>>)] }

\* get_bart_model() and summarize_with_bart(...): the loader raises, the
\* summarizer raises, or it returns a summary object
BartOutcomes ==
  { Raised("bart_path_missing"), Raised("inference_error") }
  \cup { Returned(obj) : obj \in BartReturns }

\* get_mistral_model() and summarize_with_mistral(...) on the joined
\* transcript: the loader raises for a missing path or a missing GPU; with
\* the model loaded the call returns for a transcript that is too short and
\* raises otherwise (in the tokenizer or the model, or on line 184)
MistralOutcomes(full) ==
  { Raised("path_missing"), Raised("no_gpu") }
  \cup IF ReturnsTooShort(Str(full))
       THEN { Returned(TooShortReturn) }
       ELSE { Raised("inference_error") }
            \cup (IF RisksFilterRaises THEN { Raised("name_error") } ELSE {})

Outcomes(backend, full) ==
  IF backend = "mistral" THEN MistralOutcomes(full) ELSE BartOutcomes

\* full_transcript[:300]
Excerpt(full) == SubSeq(full, 1, Min(ExcerptLen, Len(full)))

\* the excerpt left as it is
PlainExcerpt(full) == Excerpt(full)

\* full_transcript[:300] + ("..." if len(full_transcript) > 300 else note)
MarkedExcerpt(full, note) ==
  Excerpt(full) \o (IF Len(full) > ExcerptLen THEN Ellipsis ELSE note)

\* the excerpt with its ellipsis, the note left out
EllipsisExcerpt(full) == MarkedExcerpt(full, <<>>)

\* line 129: the summary when mode "bart" fails
BartFailSummary(full, e) ==
  MarkedExcerpt(full, BartErrorOpen \o ErrorText(e) \o <<"]">>)

\* line 150: the summary when mode "mistral" and its BART fallback fail
BothFailSummary(full, e, e2) ==
  MarkedExcerpt(full, BothErrorOpen \o ErrorText(e) \o <<";", " ">>
                       \o ErrorText(e2) \o <<"]">>)

\* line 171: the summary when both attempts of the auto mode fail
AutoFailSummary(full) == Excerpt(full)

\* the summary as the attempts left it
SummaryAsIs(s) == s

\* line 174: summary or "No summary generated."
SummaryOrPlaceholder(s) == IF Truthy(s) THEN s ELSE Str(NoSummaryText)

\* "\n".join(processed_transcripts) raises TypeError
JoinRaises(processed) == \E i \in DOMAIN processed : processed[i].t # "str"

\* "\n".join(processed_transcripts)
JoinLines(processed) ==
  JoinWith(<<"\n">>, [i \in DOMAIN processed |-> processed[i].v])

\* Mistral is tried first whatever the mode
MistralFirst(m) == "mistral"

\* the backend tried first and the one tried after it failed
Primary(m) == IF m = ModeMistral THEN "mistral" ELSE "bart"
Secondary(m) == IF m = ModeMistral THEN "bart" ELSE "mistral"

\* a handler that reports the failure as a success
Swallowed(msg) == [status |-> "success", message |-> None]

\* except Exception as e: return {"status": "error", "message": str(e)}
Caught(msg) == [status |-> "error", message |-> Some(msg)]

\* return {"status": "success", ...}
Success == [status |-> "success", message |-> None]

\* SummarizationTool.execute up to the first attempt of summarize_protocol:
\* the parameters, the mode, the joined transcript
SummCall ==
  /\ pcTool = "call" /\ tool = "summarization"
  /\ LET processed == OrElse(OrElse(params.processed_transcripts, params.processed),
                             Some(<<>>))[1]
         asked == OrElse(params.mode, params.summarizer)
         chosen == OrElse(OrElse(asked, Some(AgentMode)), Some(ModeAuto))[1]
     IN  /\ mode' = LowerSeq(chosen)
         /\ IF JoinRaises(processed)
            THEN /\ failure' = <<"summarize_protocol">>
                 /\ outcome' = Caught(JoinErrorMessage)
                 /\ pcTool' = "done"
                 /\ UNCHANGED full_transcript
            ELSE /\ full_transcript' = JoinLines(processed)
                 /\ pcTool' = "first"
                 /\ UNCHANGED <<failure, outcome>>
  /\ UNCHANGED <<tool, params, attempts, summary, action_items, result, toolOthers>>

\* summarize_protocol, the first try block of the branch of mode
SummFirst ==
  /\ pcTool = "first"
  /\ \E o \in Outcomes(Primary(mode), full_transcript) :
       /\ attempts' = Append(attempts, [backend |-> Primary(mode), kind |-> o.kind])
       /\ IF o.returned
          THEN /\ summary' = o.summary_text
               /\ action_items' = o.action_items
               /\ pcTool' = "result"
          ELSE IF mode = ModeBart
          THEN /\ summary' = Str(BartFailSummary(full_transcript, o.kind))
               /\ pcTool' = "result"
               /\ UNCHANGED action_items
          ELSE /\ pcTool' = "second"
               /\ UNCHANGED <<summary, action_items>>
  /\ UNCHANGED <<tool, params, mode, full_transcript, outcome, failure, result,
                 toolOthers>>

\* summarize_protocol, the try block inside the except of the first
SummSecond ==
  /\ pcTool = "second"
  /\ \E o \in Outcomes(Secondary(mode), full_transcript) :
       /\ attempts' = Append(attempts, [backend |-> Secondary(mode), kind |-> o.kind])
       /\ IF o.returned
          THEN /\ summary' = o.summary_text
               /\ action_items' = o.action_items
          ELSE /\ summary' = IF mode = ModeMistral
                             THEN Str(BothFailSummary(full_transcript,
                                                      attempts[1].kind, o.kind))
                             ELSE Str(AutoFailSummary(full_transcript))
               /\ UNCHANGED action_items
  /\ pcTool' = "result"
  /\ UNCHANGED <<tool, params, mode, full_transcript, outcome, failure, result,
                 toolOthers>>

\* summarize_protocol builds its result (lines 173-179: summary,
\* action_items, download_link, mode, transcript_length; the summary objects
\* of the modelled backends carry no download_link) and
\* SummarizationTool.execute returns it
SummResult ==
  /\ pcTool = "result"
  /\ result' = [summary |-> SummaryOrPlaceholder(summary),
                action_items |-> action_items, download_link |-> None,
                mode |-> mode, transcript_length |-> Len(full_transcript)]
  /\ outcome' = Success
  /\ pcTool' = "done"
  /\ UNCHANGED <<tool, params, mode, full_transcript, attempts, summary,
                 action_items, failure, toolOthers>>

(***************************************************************************)
(* tools/calendar_tool.py, jira_tool.py, notification_tool.py, risk_tool.py *)
(***************************************************************************)

\* the actions CalendarTool.execute serves
CalendarActions == {"create", "availability", "fetch", "list"}

\* params.get("action", "fetch")
ActionOf(p) == IF p.action = None THEN "fetch" ELSE p.action[1]

\* CalendarTool.execute
CalendarExecute ==
  /\ pcTool = "call" /\ tool = "calendar"
  /\ \E clientOk, callOk \in BOOLEAN :
       IF IsSet(params.calendar_id) /\ ~clientOk
       THEN /\ failure' = <<"MCPGoogleCalendar">>
            /\ outcome' = Caught(<<"calendar client">>)
       ELSE IF ActionOf(params) \in CalendarActions
       THEN IF callOk
            THEN /\ outcome' = Success
                 /\ UNCHANGED failure
            ELSE /\ failure' = <<ActionOf(params)>>
                 /\ outcome' = Caught(<<"calendar call">>)
       ELSE /\ outcome' = [status |-> "error",
                           message |-> Some(<<"Unknown action: ", ActionOf(params)>>)]
            /\ UNCHANGED failure
  /\ pcTool' = "done"
  /\ UNCHANGED <<tool, params, mode, full_transcript, attempts, summary,
                 action_items, result, toolOthers>>

\* the parts of the message JiraAgent.handle_create_jira_message returns:
\* resp.add_json_part(result)
JiraResponseParts == <<"json">>

\* JiraTool.execute
JiraExecute ==
  /\ pcTool = "call" /\ tool = "jira"
  /\ \E handlerOk \in BOOLEAN :
       IF ~handlerOk
       THEN /\ failure' = <<"handle_create_jira_message">>
            /\ outcome' = Caught(<<"jira handler">>)
       ELSE /\ outcome' = IF \E i \in DOMAIN JiraResponseParts :
                               JiraResponseParts[i] = "json"
                          THEN Success
                          ELSE [status |-> "error",
                                message |-> Some(<<"No JSON part in agent response">>)]
            /\ UNCHANGED failure
  /\ pcTool' = "done"
  /\ UNCHANGED <<tool, params, mode, full_transcript, attempts, summary,
                 action_items, result, toolOthers>>

\* NotificationTool.execute
NotificationExecute ==
  /\ pcTool = "call" /\ tool = "notification"
  /\ \E notifyOk \in BOOLEAN :
       IF notifyOk
       THEN outcome' = Success /\ UNCHANGED failure
       ELSE failure' = <<"notify">> /\ outcome' = Caught(<<"notify">>)
  /\ pcTool' = "done"
  /\ UNCHANGED <<tool, params, mode, full_transcript, attempts, summary,
                 action_items, result, toolOthers>>

\* RiskTool.execute
RiskExecute ==
  /\ pcTool = "call" /\ tool = "risk"
  /\ \E detectOk, jiraConfigured, jiraOk \in BOOLEAN :
       LET include_jira == IF params.include_jira # None
                           THEN params.include_jira[1] ELSE jiraConfigured
       IN  IF ~detectOk
           THEN failure' = <<"detect">> /\ outcome' = Caught(<<"detect">>)
           ELSE IF include_jira /\ jiraConfigured /\ ~jiraOk
           THEN /\ failure' = <<"detect_jira_risks">>
                /\ outcome' = Caught(<<"detect_jira_risks">>)
           ELSE outcome' = Success /\ UNCHANGED failure
  /\ pcTool' = "done"
  /\ UNCHANGED <<tool, params, mode, full_transcript, attempts, summary,
                 action_items, result, toolOthers>>

NextTools ==
  \/ SummCall \/ SummFirst \/ SummSecond \/ SummResult
  \/ CalendarExecute \/ JiraExecute \/ NotificationExecute \/ RiskExecute

\* a transcript chunk of n one-letter words, a to z and again
Speech(n) ==
  [p \in 1..(2 * n - 1) |->
     IF p % 2 = 1 THEN LowerLetters[(((p + 1) \div 2 - 1) % 26) + 1] ELSE " "]

\* the chunks a transcript list is made of: empty, 3 words, 12 words, and
\* 299 characters
SpeechChunks == {Str(<<>>), Str(Speech(3)), Str(Speech(12)), Str(Speech(150))}

\* the mode parameter: absent, empty, and names in either case
ModeParams ==
  { None, Some(<<>>), Some(ModeAuto), Some(ModeBart), Some(ModeMistral),
    Some(<<"B", "A", "R", "T">>), Some(<<"M", "i", "s", "t", "r", "a", "l">>),
    Some(<<"f", "a", "s", "t">>) }

\* params with nothing set
NoParams ==
  [action |-> None, calendar_id |-> None, include_jira |-> None, mode |-> None,
   summarizer |-> None, processed_transcripts |-> None, processed |-> None]

\* the params of the calls to the summarization tool: lists of chunks with
\* each mode, a list with an item that is no text, and the second names of
\* the two parameters
SummParams ==
  { [NoParams EXCEPT !.mode = m, !.processed_transcripts = p] :
      m \in ModeParams,
      p \in {None} \cup {Some(c) : c \in SeqsUpTo(SpeechChunks, MaxChunks)} }
  \cup { [NoParams EXCEPT !.mode = Some(ModeMistral),
                          !.processed_transcripts = Some(<<Lit(<<"n", "u", "l", "l">>)>>)],
         [NoParams EXCEPT !.summarizer = Some(ModeMistral),
                          !.processed = Some(<<Str(Speech(12))>>)] }

CalendarParams ==
  { [NoParams EXCEPT !.action = a, !.calendar_id = c] :
      a \in {None, Some("create"), Some("availability"), Some("fetch"),
             Some("list"), Some("delete")},
      c \in {None, Some(<<>>), Some(<<"t", "e", "a", "m">>)} }

RiskParams ==
  { [NoParams EXCEPT !.include_jira = j] : j \in {None, Some(TRUE), Some(FALSE)} }

\* the result of summarize_protocol before it is built
NoResult ==
  [summary |-> Lit(<<>>), action_items |-> List(<<>>), download_link |-> None,
   mode |-> <<>>, transcript_length |-> 0]

ToolsIdle ==
  /\ tool = "none" /\ params = NoParams /\ pcTool = "idle" /\ mode = <<>>
  /\ full_transcript = <<>> /\ attempts = <<>> /\ summary = Lit(<<>>)
  /\ action_items = List(<<>>) /\ result = NoResult
  /\ outcome = [status |-> "none", message |-> None] /\ failure = <<>>

\* a call execute(params) of one of the five tools; summary = None and
\* action_items = [] are the locals of summarize_protocol before its
\* attempts
ToolsEntry ==
  /\ \/ tool = "summarization" /\ params \in SummParams
     \/ tool = "calendar" /\ params \in CalendarParams
     \/ tool = "risk" /\ params \in RiskParams
     \/ tool \in {"jira", "notification"} /\ params = NoParams
  /\ pcTool = "call" /\ mode = <<>> /\ full_transcript = <<>> /\ attempts = <<>>
  /\ summary = Lit(<<"n", "u", "l", "l">>) /\ action_items = List(<<>>)
  /\ result = NoResult
  /\ outcome = [status |-> "none", message |-> None] /\ failure = <<>>

(***************************************************************************)
(* agents/mistral_summarizer.py: the filtering lines 181-185               *)
(***************************************************************************)

\* number of items of a parsed field
MaxFieldItems == 2

FixText == <<"F", "i", "x", " ", "l", "o", "g", "i", "n", " ", "b", "u", "g">>
BobText == <<"B", "o", "b">>
TaskPlaceholder == <<"<", "t", "a", "s", "k", ">">>
KeyTags == <<"t", "a", "g", "s">>
NullValue == Lit(<<"n", "u", "l", "l">>)

\* strings and other values a parsed summary, decisions, risks or
\* follow_up_questions field carries
SummaryCandidates ==
  { Str(<<>>),
    Str(<<" ">>),
    Str(<<"-">>),
    Str(<<"p", "o", "i", "n", "t", " ", "1">>),
    Str(<<" ", "P", "o", "i", "n", "t", " ", "2", " ">>),
    Str(<<"p", "o", "i", "n", "t", "1">>),
    Str(<<"P", "O", "I", "N", "T", "2">>),
    Str(<<"<", "s", "u", "m", "m", "a", "r", "y", " ", "b", "u", "l",
        "l", "e", "t", " ", "1", ">">>),
    Str(<<"<", "S", "u", "m", "m", "a", "r", "y", " ", "b", "u", "l",
        "l", "e", "t", " ", "2", ">">>),
    Str(<<"p", "o", "i", "n", "t", " ", "o", "f", " ", "o", "r", "d",
        "e", "r">>),
    Str(<<"<", "s", "u", "m", "m", "a", "r", "y", ">">>),
    Str(<<"a", " ", "<", "b", ">", " ", "c">>),
    Str(<<"a", " ", "<", " ", "b">>),
    Str(<<"S", "h", "i", "p", " ", "i", "t">>),
    Str(<<"p", "o", "i", "n", "t", "e", "r">>),
    NullValue, List(<<Str(<<"x">>)>>),
    Dict(<<Pair(KeyTask, Str(FixText))>>) }

\* dicts, strings and other values a parsed action_items field carries
ActionCandidates ==
  { Dict(<<Pair(KeySummary, Str(TaskPlaceholder)), Pair(KeyOwner, Str(<<>>))>>),
    Dict(<<Pair(KeySummary, Str(FixText)), Pair(KeyOwner, Str(BobText))>>),
    Dict(<<Pair(KeySummary, Str(FixText)), Pair(KeyOwner, Str(<<" ">>))>>),
    Dict(<<Pair(KeySummary, Str(<<" ">> \o TaskPlaceholder))>>),
    Dict(<<Pair(KeySummary, Str(FixText)), Pair(KeyOwner, NullValue)>>),
    Dict(<<Pair(KeySummary, Str(FixText)), Pair(KeyTags, List(<<>>))>>),
    Dict(<<Pair(KeyOwner, NullValue), Pair(KeyTags, List(<<>>))>>),
    Dict(<<>>),
    Str(FixText), Str(<<>>), Str(<<" ">>), Str(TaskPlaceholder),
    Str(<<" ">> \o TaskPlaceholder), NullValue,
    Lit(<<"t", "r", "u", "e">>), List(<<Str(FixText)>>) }

\* the fields when the parsed object has none of the keys
NoFields ==
  [summary_text |-> List(<<>>), action_items |-> List(<<>>),
   decisions |-> List(<<>>), risks |-> List(<<>>),
   follow_up_questions |-> List(<<>>)]

\* a field of the parsed object: a list of items, or one item that is no list
FieldValues(candidates) ==
  {List(xs) : xs \in SeqsUpTo(candidates, MaxFieldItems)}
  \cup {c \in candidates : c.t # "list"}

\* the filtered lists before line 181; filtered_risks and
\* filtered_follow_ups are not bound until lines 184 and 185 assign them
NoFiltered ==
  [filtered_summaries |-> <<>>, filtered_action_items |-> <<>>,
   filtered_decisions |-> <<>>, filtered_risks |-> None,
   filtered_follow_ups |-> None]

\* lines 181-184: the comprehensions over summary_text, action_items and
\* decisions, then the one over risks, whose iterable raises NameError;
\* line 185 (follow_up_questions) is not reached
FilterLines ==
  /\ pcFilter = "filter"
  /\ RisksFilterRaises
  /\ filteredLists' =
       [filtered_summaries |->
          SelectSeq(AsList(parsedFields.summary_text), is_valid_summary_item),
        filtered_action_items |->
          SelectSeq(AsList(parsedFields.action_items), is_valid_action_item),
        filtered_decisions |->
          SelectSeq(AsList(parsedFields.decisions), is_valid_summary_item),
        filtered_risks |-> None,
        filtered_follow_ups |-> None]
  /\ filterError' = "NameError"
  /\ pcFilter' = "raised"
  /\ UNCHANGED <<parsedFields, filterOthers>>

NextFilter == FilterLines

FilterIdle ==
  /\ parsedFields = NoFields /\ pcFilter = "idle"
  /\ filteredLists = NoFiltered /\ filterError = "none"

\* line 181 is reached with one of the five fields set by the parsed object
FilterEntry ==
  /\ parsedFields \in
       {[NoFields EXCEPT !.summary_text = v] : v \in FieldValues(SummaryCandidates)}
       \cup {[NoFields EXCEPT !.action_items = v] : v \in FieldValues(ActionCandidates)}
       \cup {[NoFields EXCEPT !.decisions = v] : v \in FieldValues(SummaryCandidates)}
       \cup {[NoFields EXCEPT !.risks = v] : v \in FieldValues(SummaryCandidates)}
       \cup {[NoFields EXCEPT !.follow_up_questions = v] :
                v \in FieldValues(SummaryCandidates)}
  /\ pcFilter = "filter"
  /\ filteredLists = NoFiltered /\ filterError = "none"

(***************************************************************************)
(* agents/summarization_agent.py: get_bart_model, get_mistral_model on the *)
(* worker threads of loop.run_in_executor                                  *)
(***************************************************************************)

\* the worker threads running summarize_protocol
Threads == 1..MaxThreads

\* line 20 / line 46: "if not hasattr(f, 'tokenizer') or not hasattr(f,
\* 'model')", then the checks of the path (lines 31, 48) and of the GPU
\* (line 54, Mistral only); the thread goes on to load, raises, or returns
\* the cached pair
LoaderCheck(t) ==
  /\ pcLoader[t] = "check"
  /\ pcLoader' =
       [pcLoader EXCEPT ![t] =
          IF hasTokenizer /\ hasModel THEN "return"
          ELSE IF ~pathExists THEN "raised"
          ELSE IF loader = "mistral" /\ ~cudaAvailable THEN "raised"
          ELSE "load_tokenizer"]
  /\ UNCHANGED <<loader, pathExists, cudaAvailable, hasTokenizer, hasModel,
                 tokenizerLoads, modelLoads, loaderOthers>>

\* line 36 / line 56: f.tokenizer = AutoTokenizer.from_pretrained(model_path)
LoadTokenizer(t) ==
  /\ pcLoader[t] = "load_tokenizer"
  /\ tokenizerLoads' = tokenizerLoads + 1
  /\ hasTokenizer' = TRUE
  /\ pcLoader' = [pcLoader EXCEPT ![t] = "load_model"]
  /\ UNCHANGED <<loader, pathExists, cudaAvailable, hasModel, modelLoads,
                 loaderOthers>>

\* line 38 / lines 57-64: f.model = ...from_pretrained(model_path)
LoadModel(t) ==
  /\ pcLoader[t] = "load_model"
  /\ modelLoads' = modelLoads + 1
  /\ hasModel' = TRUE
  /\ pcLoader' = [pcLoader EXCEPT ![t] = "return"]
  /\ UNCHANGED <<loader, pathExists, cudaAvailable, hasTokenizer,
                 tokenizerLoads, loaderOthers>>

\* line 40 / line 65: return f.tokenizer, f.model
LoaderReturn(t) ==
  /\ pcLoader[t] = "return"
  /\ pcLoader' = [pcLoader EXCEPT ![t] = "returned"]
  /\ UNCHANGED <<loader, pathExists, cudaAvailable, hasTokenizer, hasModel,
                 tokenizerLoads, modelLoads, loaderOthers>>

NextLoader ==
  \E t \in Threads :
    LoaderCheck(t) \/ LoadTokenizer(t) \/ LoadModel(t) \/ LoaderReturn(t)

LoaderIdle ==
  /\ loader = "none" /\ pathExists = FALSE /\ cudaAvailable = FALSE
  /\ pcLoader = [t \in Threads |-> "idle"]
  /\ hasTokenizer = FALSE /\ hasModel = FALSE
  /\ tokenizerLoads = 0 /\ modelLoads = 0

\* the threads are the first callers of the loader: nothing is cached yet
LoaderEntry ==
  /\ loader \in {"bart", "mistral"}
  /\ pathExists \in BOOLEAN /\ cudaAvailable \in BOOLEAN
  /\ pcLoader = [t \in Threads |-> "check"]
  /\ hasTokenizer = FALSE /\ hasModel = FALSE
  /\ tokenizerLoads = 0 /\ modelLoads = 0

(***************************************************************************)
(* server/mcp_api.py: verify_api_key and the endpoints that depend on it   *)
(***************************************************************************)

\* the endpoints, each declared with dependencies=[Depends(verify_api_key)],
\* and the tool each dispatches
Endpoints ==
  {"/mcp/calendar", "/mcp/transcript", "/mcp/orchestrate", "/mcp/summarize",
   "/mcp/jira", "/mcp/risk"}

ToolOfEndpoint(e) ==
  CASE e = "/mcp/calendar" -> "calendar"
    [] e = "/mcp/transcript" -> "transcript"
    [] e = "/mcp/summarize" -> "summarization"
    [] e = "/mcp/jira" -> "jira"
    [] e = "/mcp/risk" -> "risk"
    [] OTHER -> "orchestrator"

\* a dependency that admits every request
AdmitsAll(header) == TRUE

\* verify_api_key(x_api_key): TRUE when it returns True, FALSE when it
\* raises HTTPException(401)
verify_api_key(header) ==
  IF envDisableCheck = Some(<<"1">>) THEN TRUE
  ELSE IF envApiKey = None THEN TRUE
  ELSE IF header = None \/ header = Some(<<>>) \/ header # envApiKey THEN FALSE
  ELSE TRUE

\* the dependency runs before the endpoint function: a raise answers 401
\* and the endpoint function is not called
ApiVerify ==
  /\ pcApi = "verify"
  /\ IF verify_api_key(x_api_key)
     THEN pcApi' = "endpoint" /\ UNCHANGED apiStatus
     ELSE pcApi' = "responded" /\ apiStatus' = HTTP_401_UNAUTHORIZED
  /\ UNCHANGED <<envApiKey, envDisableCheck, endpoint, x_api_key,
                 sessionsCreated, dispatched, apiOthers>>

\* session_id = mcp_host.create_session(agent_id="http-client")
ApiCreateSession ==
  /\ pcApi = "endpoint" /\ endpoint # "/mcp/orchestrate"
  /\ sessionsCreated' = sessionsCreated + 1
  /\ pcApi' = "session"
  /\ UNCHANGED <<envApiKey, envDisableCheck, endpoint, x_api_key, apiStatus,
                 dispatched, apiOthers>>

\* result = await mcp_host.execute_tool(session_id, <tool>, params);
\* mcp_host.end_session(session_id); return result
ApiExecuteTool ==
  /\ pcApi = "session"
  /\ dispatched' = Append(dispatched, ToolOfEndpoint(endpoint))
  /\ apiStatus' = HTTP_200_OK
  /\ pcApi' = "responded"
  /\ UNCHANGED <<envApiKey, envDisableCheck, endpoint, x_api_key,
                 sessionsCreated, apiOthers>>

\* call_orchestrate: result = await orchestrator.orchestrate(...)
ApiOrchestrate ==
  /\ pcApi = "endpoint" /\ endpoint = "/mcp/orchestrate"
  /\ dispatched' = Append(dispatched, ToolOfEndpoint(endpoint))
  /\ apiStatus' = HTTP_200_OK
  /\ pcApi' = "responded"
  /\ UNCHANGED <<envApiKey, envDisableCheck, endpoint, x_api_key,
                 sessionsCreated, apiOthers>>

NextApi == ApiVerify \/ ApiCreateSession \/ ApiExecuteTool \/ ApiOrchestrate

\* values of MCP_API_KEY and of the x-api-key header: unset, empty, and keys
\* that differ in a character, in case, and in length
KeyTexts == {<<>>, <<"k", "1">>, <<"K", "1">>, <<"k", "2">>, <<"k", "1", " ">>}

OptionalKeys == {None} \cup {Some(k) : k \in KeyTexts}

\* values of DISABLE_API_KEY_CHECK
DisableValues == {None, Some(<<"1">>), Some(<<"0">>), Some(<<>>),
                  Some(<<"t", "r", "u", "e">>)}

ApiIdle ==
  /\ envApiKey = None /\ envDisableCheck = None /\ endpoint = "none"
  /\ x_api_key = None /\ pcApi = "idle" /\ apiStatus = 0
  /\ sessionsCreated = 0 /\ dispatched = <<>>

\* a request arrives at one of the endpoints
ApiEntry ==
  /\ envApiKey \in OptionalKeys /\ envDisableCheck \in DisableValues
  /\ endpoint \in Endpoints /\ x_api_key \in OptionalKeys
  /\ pcApi = "verify" /\ apiStatus = 0
  /\ sessionsCreated = 0 /\ dispatched = <<>>

(***************************************************************************)
(* tools/jira_tool.py, agents/jira_agent.py                                *)
(* (the action items of a message are lists; their summary and title are   *)
(* texts or absent)                                                        *)
(***************************************************************************)

KeyTitle == <<"t", "i", "t", "l", "e">>
KeyDue == <<"d", "u", "e">>
KeyItems == <<"i", "t", "e", "m", "s">>
KeyTasks == <<"t", "a", "s", "k", "s">>
KeyUser == <<"u", "s", "e", "r">>
KeyDate == <<"d", "a", "t", "e">>

\* key in d
HasKey(d, key) == \E i \in DOMAIN d.v : d.v[i].k = key

\* d.get(key): None when the key is absent
GetOrNone(d, key) ==
  IF HasKey(d, key)
  THEN d.v[CHOOSE i \in DOMAIN d.v : d.v[i].k = key].val
  ELSE NullValue

\* repr of a text without quotes or escapes, of None, of a list and of a
\* dict, as str(item) writes them
RECURSIVE PyRepr(_)
PyRepr(x) ==
  IF x.t = "str" THEN <<"'">> \o x.v \o <<"'">>
  ELSE IF x.t = "lit"
  THEN (IF x.v = <<"n", "u", "l", "l">> THEN <<"N", "o", "n", "e">>
        ELSE IF x.v = <<"t", "r", "u", "e">> THEN <<"T", "r", "u", "e">>
        ELSE <<"F", "a", "l", "s", "e">>)
  ELSE IF x.t = "list"
  THEN <<"[">> \o JoinWith(<<",", " ">>, [i \in DOMAIN x.v |-> PyRepr(x.v[i])])
       \o <<"]">>
  ELSE <<"{">>
       \o JoinWith(<<",", " ">>,
                   [i \in DOMAIN x.v |->
                      <<"'">> \o x.v[i].k \o <<"'", ":", " ">> \o PyRepr(x.v[i].val)])
       \o <<"}">>

\* a or b
PyOr(a, b) == IF Truthy(a) THEN a ELSE b

\* item.get(...) raises AttributeError: the item is no dict
ItemRaises(item) == item.t # "dict"

\* title = item.get("summary") or item.get("title") or str(item)
TitleOf(item) ==
  PyOr(GetOrNone(item, KeySummary),
       PyOr(GetOrNone(item, KeyTitle), Str(PyRepr(item))))

\* title.replace("\n", " ")
OneLine(s) == [i \in DOMAIN s |-> IF s[i] = "\n" THEN " " ELSE s[i]]

\* jira package or credentials missing
SkipReason ==
  <<"j", "i", "r", "a", " ", "p", "a", "c", "k", "a", "g", "e", " ",
    "o", "r", " ", "c", "r", "e", "d", "e", "n", "t", "i", "a", "l", "s",
    " ", "m", "i", "s", "s", "i", "n", "g">>

\* str(e) of the exception of JIRA(...) and of create_issue
ConnectErrorText == <<"H", "T", "T", "P", " ", "4", "0", "1">>
CreateErrorText == <<"H", "T", "T", "P", " ", "4", "0", "0">>

\* the key of the n-th issue the server creates
IssueKey(n) == <<"P", "R", "O", "J", "-">> \o <<LowerLetters[n]>>

\* an entry that never records why the item was not created
EntryWithoutReason(item, key, st, why) ==
  [title |-> TitleOf(item), owner |-> GetOrNone(item, KeyOwner),
   due |-> GetOrNone(item, KeyDue), jira_issue_key |-> key, status |-> st,
   reason |-> None]

\* an entry of created_tasks; reason is None when the entry has no such key
Entry(item, key, st, why) ==
  [title |-> TitleOf(item), owner |-> GetOrNone(item, KeyOwner),
   due |-> GetOrNone(item, KeyDue), jira_issue_key |-> key, status |-> st,
   reason |-> why]

\* the external calls: JIRA(server=..., basic_auth=...) and
\* jira_client.create_issue(fields=...) with the summary of its fields
ConnectCall == [op |-> "JIRA", summary |-> <<>>]
CreateCall(item) == [op |-> "create_issue", summary |-> OneLine(TitleOf(item).v)]

\* a part of a message: its kind and its content
Part(kind, content) == [kind |-> kind, content |-> content]

\* line 104: not JIRA or not JIRA_URL or not JIRA_USER or not JIRA_TOKEN
Unusable(env) == ~env.package \/ ~env.url \/ ~env.user \/ ~env.token

\* lines 43-58: the first JSON part whose content is a dict (0: none)
FirstJsonDict(parts) ==
  LET hits == {i \in DOMAIN parts :
                 parts[i].kind = "json" /\ parts[i].content.t = "dict"}
  IN  IF hits = {} THEN 0 ELSE CHOOSE i \in hits : \A j \in hits : i <= j

\* lines 48-53: action_items, else items, else tasks of the content; None
\* when it has none of the three keys
ContentItems(content) ==
  IF HasKey(content, KeyActionItems) THEN GetOrNone(content, KeyActionItems)
  ELSE IF HasKey(content, KeyItems) THEN GetOrNone(content, KeyItems)
  ELSE IF HasKey(content, KeyTasks) THEN GetOrNone(content, KeyTasks)
  ELSE NullValue

\* lines 62-69: every part's content, a dict as it is and a text as
\* {"summary": text}; contents of other types are left out
Collected(parts) ==
  LET conts == [i \in DOMAIN parts |-> parts[i].content]
      usable(c) == c.t \in {"dict", "str"}
      asItem(c) == IF c.t = "dict" THEN c ELSE Dict(<<Pair(KeySummary, c)>>)
      kept == SelectSeq(conts, usable)
  IN  [i \in DOMAIN kept |-> asItem(kept[i])]

\* lines 40-72: the action items handle_create_jira_message hands to
\* create_jira_issues
HandlerItems(parts) ==
  LET first == FirstJsonDict(parts)
      found == IF first = 0 THEN NullValue ELSE ContentItems(parts[first].content)
  IN  IF Truthy(found) THEN found.v ELSE Collected(parts)

\* jira_tool.py lines 29-31: the message JiraTool.execute builds, with a
\* single JSON part
ToolMessage(actionItems) ==
  <<Part("json", Dict(<<Pair(KeyActionItems, List(actionItems)),
                        Pair(KeyUser, NullValue), Pair(KeyDate, NullValue)>>))>>

\* the outcome of JiraTool.execute before it returns
NoJiraOutcome == [status |-> "none", results |-> None, message |-> None]

\* jira_tool.py lines 39-40: the exception of the handler is caught
JiraCaught == [status |-> "error", results |-> None,
               message |-> Some(<<"A", "t", "t", "r", "i", "b", "u", "t", "e",
                                  "E", "r", "r", "o", "r">>)]

\* handle_create_jira_message, lines 40-72: the action items are chosen
\* from the parts
JiraHandle ==
  /\ pcJira = "handle"
  /\ jiraItems' = HandlerItems(jiraParts)
  /\ pcJira' = "creds"
  /\ UNCHANGED <<jiraEnv, jiraParts, jiraIdx, created, jiraCalls, jiraReturn,
                 jiraOutcome, jiraOthers>>

\* create_jira_issues, lines 87-116: the credentials are read; without the
\* package or a credential every item gets a skipped entry and the call
\* returns (an item that is no dict raises, and JiraTool.execute catches)
JiraCheckCreds ==
  /\ pcJira = "creds"
  /\ IF ~Unusable(jiraEnv)
     THEN /\ pcJira' = "connect"
          /\ UNCHANGED <<created, jiraReturn, jiraOutcome>>
     ELSE IF \E i \in DOMAIN jiraItems : ItemRaises(jiraItems[i])
     THEN /\ jiraOutcome' = JiraCaught
          /\ pcJira' = "done"
          /\ UNCHANGED <<created, jiraReturn>>
     ELSE /\ created' = [i \in DOMAIN jiraItems |->
                           Entry(jiraItems[i], NullValue, "skipped",
                                 Some(SkipReason))]
          /\ jiraReturn' = Some([status |-> "skipped", created_tasks |-> created'])
          /\ pcJira' = "respond"
          /\ UNCHANGED jiraOutcome
  /\ UNCHANGED <<jiraEnv, jiraParts, jiraItems, jiraIdx, jiraCalls, jiraOthers>>

\* lines 118-131: jira_client = JIRA(...); when it raises every item gets
\* an error entry and the call returns status "error"
JiraConnect ==
  /\ pcJira = "connect"
  /\ jiraCalls' = Append(jiraCalls, ConnectCall)
  /\ IF jiraEnv.connects
     THEN /\ pcJira' = "loop" /\ jiraIdx' = 1
          /\ UNCHANGED <<created, jiraReturn, jiraOutcome>>
     ELSE IF \E i \in DOMAIN jiraItems : ItemRaises(jiraItems[i])
     THEN /\ jiraOutcome' = JiraCaught
          /\ pcJira' = "done"
          /\ UNCHANGED <<created, jiraReturn, jiraIdx>>
     ELSE /\ created' = [i \in DOMAIN jiraItems |->
                           Entry(jiraItems[i], NullValue, "error",
                                 Some(ConnectErrorText))]
          /\ jiraReturn' = Some([status |-> "error", created_tasks |-> created'])
          /\ pcJira' = "respond"
          /\ UNCHANGED <<jiraOutcome, jiraIdx>>
  /\ UNCHANGED <<jiraEnv, jiraParts, jiraItems, jiraOthers>>

\* lines 133-160, one pass of "for item in action_items": create_issue
\* returns an issue or raises, and the entry is appended either way (an
\* item that is no dict raises on line 134, outside the try)
JiraCreateIssue ==
  /\ pcJira = "loop" /\ jiraIdx <= Len(jiraItems)
  /\ LET item == jiraItems[jiraIdx]
         n == Cardinality({i \in DOMAIN created : created[i].status = "created"})
     IN  IF ItemRaises(item)
         THEN /\ jiraOutcome' = JiraCaught
              /\ pcJira' = "done"
              /\ UNCHANGED <<created, jiraCalls, jiraIdx>>
         ELSE /\ jiraCalls' = Append(jiraCalls, CreateCall(item))
              /\ \/ created' = Append(created,
                                      Entry(item, Str(IssueKey(n + 1)), "created", None))
                 \/ created' = Append(created,
                                      Entry(item, NullValue, "error",
                                            Some(CreateErrorText)))
              /\ jiraIdx' = jiraIdx + 1
              /\ UNCHANGED <<pcJira, jiraOutcome>>
  /\ UNCHANGED <<jiraEnv, jiraParts, jiraItems, jiraReturn, jiraOthers>>

\* line 162: return {"status": "success", "created_tasks": created}
JiraReturn ==
  /\ pcJira = "loop" /\ jiraIdx > Len(jiraItems)
  /\ jiraReturn' = Some([status |-> "success", created_tasks |-> created])
  /\ pcJira' = "respond"
  /\ UNCHANGED <<jiraEnv, jiraParts, jiraItems, jiraIdx, created, jiraCalls,
                 jiraOutcome, jiraOthers>>

\* jira_agent.py lines 73-75 and jira_tool.py lines 35-37: the result is
\* sent back as the JSON part of the response, and JiraTool.execute returns
\* {"status": "success", "results": part.content}
JiraRespond ==
  /\ pcJira = "respond"
  /\ jiraOutcome' = [status |-> "success", results |-> jiraReturn,
                     message |-> None]
  /\ pcJira' = "done"
  /\ UNCHANGED <<jiraEnv, jiraParts, jiraItems, jiraIdx, created, jiraCalls,
                 jiraReturn, jiraOthers>>

NextJira ==
  \/ JiraHandle \/ JiraCheckCreds \/ JiraConnect \/ JiraCreateIssue
  \/ JiraReturn \/ JiraRespond

\* action items: with a summary of two lines, with a title, owner and due,
\* with neither summary nor title, and a text in place of a dict
JiraItemFix ==
  Dict(<<Pair(KeySummary, Str(<<"F", "i", "x", "\n", "i", "t">>))>>)
JiraItemPlan ==
  Dict(<<Pair(KeyTitle, Str(<<"P", "l", "a", "n">>)),
         Pair(KeyOwner, Str(BobText)), Pair(KeyDue, Str(<<"F", "r", "i">>))>>)
JiraItemUntitled == Dict(<<Pair(KeyOwner, Str(<<"A", "n", "n">>))>>)
JiraItemText == Str(<<"C", "a", "l", "l">>)

JiraItemLists ==
  SeqsUpTo({JiraItemFix, JiraItemPlan, JiraItemUntitled, JiraItemText},
           MaxJiraItems)

\* messages given to the handler directly: several JSON parts, a JSON part
\* under the key items, a JSON part that is no dict, text parts, and parts
\* of a kind the handler does not know
HandlerMessages ==
  { <<Part("json", Dict(<<Pair(KeyActionItems, List(<<JiraItemFix>>))>>)),
      Part("json", Dict(<<Pair(KeyActionItems, List(<<JiraItemPlan>>))>>))>>,
    <<Part("text", Str(<<"h", "i">>)),
      Part("json", List(<<JiraItemPlan>>)),
      Part("json", Dict(<<Pair(KeyItems, List(<<JiraItemPlan>>))>>))>>,
    <<Part("audio", Dict(<<Pair(KeyOwner, Str(BobText))>>)),
      Part("json", Dict(<<Pair(KeyTasks, List(<<JiraItemFix>>))>>))>>,
    <<Part("audio", Dict(<<Pair(KeyOwner, Str(BobText))>>)),
      Part("text", Str(<<"h", "i">>))>>,
    <<>> }

JiraEnvs ==
  [package : BOOLEAN, url : BOOLEAN, user : BOOLEAN, token : BOOLEAN,
   connects : BOOLEAN]

JiraIdle ==
  /\ jiraEnv = [package |-> FALSE, url |-> FALSE, user |-> FALSE,
                token |-> FALSE, connects |-> FALSE]
  /\ jiraParts = <<>> /\ jiraItems = <<>> /\ pcJira = "idle" /\ jiraIdx = 0
  /\ created = <<>> /\ jiraCalls = <<>> /\ jiraReturn = None
  /\ jiraOutcome = NoJiraOutcome

\* JiraTool.execute has built its message, or a message is given to the
\* handler directly
JiraEntry ==
  /\ jiraEnv \in JiraEnvs
  /\ jiraParts \in {ToolMessage(xs) : xs \in JiraItemLists} \cup HandlerMessages
  /\ jiraItems = <<>> /\ pcJira = "handle" /\ jiraIdx = 0
  /\ created = <<>> /\ jiraCalls = <<>> /\ jiraReturn = None
  /\ jiraOutcome = NoJiraOutcome

(***************************************************************************)
(* tools/risk_tool.py, agents/risk_detection_agent.py: RiskTool.execute    *)
(* runs detect on the summary and the tasks and, when a Jira client is     *)
(* configured and not switched off, detect_jira_risks, and merges the two  *)
(* lists.  A risk is a dict.                                               *)
(***************************************************************************)
KeyId ==
    <<"i", "d">>
KeyMeetingId ==
    <<"m", "e", "e", "t", "i", "n", "g", "_", "i", "d">>
KeyDescription ==
    <<"d", "e", "s", "c", "r", "i", "p", "t", "i", "o", "n">>
KeySeverity ==
    <<"s", "e", "v", "e", "r", "i", "t", "y">>
KeySource ==
    <<"s", "o", "u", "r", "c", "e">>
KeyType ==
    <<"t", "y", "p", "e">>
KeyKey ==
    <<"k", "e", "y">>
KeyBlockers ==
    <<"b", "l", "o", "c", "k", "e", "r", "s">>
KeySummaryText ==
    <<"s", "u", "m", "m", "a", "r", "y", "_", "t", "e", "x", "t">>
KeyDueDate ==
    <<"d", "u", "e", "_", "d", "a", "t", "e">>
KeyLastUpdated ==
    <<"l", "a", "s", "t", "_", "u", "p", "d", "a", "t", "e", "d">>
KeyPriority ==
    <<"p", "r", "i", "o", "r", "i", "t", "y">>

\* str(x): a text is itself, anything else is written as repr writes it
PyStr(x) == IF x.t = "str" THEN x.v ELSE PyRepr(x)

\* risk_tool.py line 23: the meeting_id of params.get("meeting_id", ...)
DefaultMeetingId ==
    <<"u", "i", "_", "s", "e", "s", "s", "i", "o", "n">>

\* line 50: an id is "risk_" and eight digits of a fresh uuid; the n-th id
GenId(n) == <<"r", "i", "s", "k", "_">> \o <<LowerLetters[n]>>

\* line 79
risk_terms ==
  { <<"d", "e", "l", "a", "y">>,
    <<"d", "e", "l", "a", "y", "e", "d">>,
    <<"b", "l", "o", "c", "k", "e", "d">>,
    <<"b", "l", "o", "c", "k", "i", "n", "g">>,
    <<"p", "e", "n", "d", "i", "n", "g">>,
    <<"c", "a", "n", "n", "o", "t">>,
    <<"e", "r", "r", "o", "r">>,
    <<"r", "i", "s", "k">>,
    <<"c", "o", "n", "c", "e", "r", "n">>,
    <<"i", "s", "s", "u", "e">> }

\* line 91: more tasks than this in one meeting is a risk
ManyTasks == 5

\* the descriptions of lines 84, 95 and 107
TermsDescription ==
    <<"D", "e", "t", "e", "c", "t", "e", "d", " ", "t", "e", "r", "m",
    "s", " ", "i", "n", "d", "i", "c", "a", "t", "i", "n", "g", " ", "p",
    "o", "t", "e", "n", "t", "i", "a", "l", " ", "d", "e", "l", "a", "y",
    ",", " ", "b", "l", "o", "c", "k", "a", "g", "e", " ", "o", "r", " ",
    "c", "o", "n", "c", "e", "r", "n", ".">>
TasksDescription ==
    <<"M", "a", "n", "y", " ", "t", "a", "s", "k", "s", " ", "c", "r",
    "e", "a", "t", "e", "d", " ", "i", "n", " ", "a", " ", "s", "i", "n",
    "g", "l", "e", " ", "m", "e", "e", "t", "i", "n", "g", ";", " ", "r",
    "e", "v", "i", "e", "w", " ", "c", "a", "p", "a", "c", "i", "t", "y",
    " ", "a", "n", "d", " ", "s", "c", "o", "p", "e", ".">>
NoRiskDescription ==
    <<"N", "o", " ", "i", "m", "m", "e", "d", "i", "a", "t", "e", " ",
    "r", "i", "s", "k", "s", " ", "d", "e", "t", "e", "c", "t", "e", "d",
    ".">>

\* a risk of detect, lines 70-76, 81-87, 92-98 and 104-110
Risk(n, meeting_id, description, severity, source) ==
  Dict(<<Pair(KeyId, Str(GenId(n))), Pair(KeyMeetingId, meeting_id),
         Pair(KeyDescription, Str(description)),
         Pair(KeySeverity, Str(severity)), Pair(KeySource, Str(source))>>)

\* a summary is never found to have a blocker
NoBlockers(summaryArg) == <<>>

\* lines 57-61: the blockers and the text of the summary
BlockersOf(summaryArg) ==
  IF summaryArg.t = "dict" /\ HasKey(summaryArg, KeyBlockers)
       /\ Truthy(GetOrNone(summaryArg, KeyBlockers))
  THEN GetOrNone(summaryArg, KeyBlockers).v ELSE <<>>

SummaryTextOf(summaryArg) ==
  IF summaryArg.t # "dict" THEN PyStr(summaryArg)
  ELSE IF HasKey(summaryArg, KeySummaryText)
            /\ Truthy(GetOrNone(summaryArg, KeySummaryText))
  THEN GetOrNone(summaryArg, KeySummaryText).v ELSE <<>>

\* lines 52-112: the risks detect returns when the ids generated so far
\* number n
detect(n, meeting_id, summaryArg, tasksArg) ==
  LET blockers == BlockersOf(summaryArg)
      st == LowerSeq(SummaryTextOf(summaryArg))
      fromBlockers ==
        [i \in DOMAIN blockers |->
           Risk(n + i, meeting_id, PyStr(blockers[i]),
                <<"h", "i", "g", "h">>, <<"s", "u", "m", "m", "a", "r", "y">>)]
      n1 == n + Len(blockers)
      fromTerms ==
        IF \E term \in risk_terms : Contains(st, term)
        THEN <<Risk(n1 + 1, meeting_id, TermsDescription,
                    <<"m", "e", "d", "i", "u", "m">>,
                    <<"s", "u", "m", "m", "a", "r", "y">>)>>
        ELSE <<>>
      n2 == n1 + Len(fromTerms)
      fromTasks ==
        IF tasksArg > ManyTasks
        THEN <<Risk(n2 + 1, meeting_id, TasksDescription,
                    <<"m", "e", "d", "i", "u", "m">>,
                    <<"t", "a", "s", "k", "s">>)>>
        ELSE <<>>
      found == fromBlockers \o fromTerms \o fromTasks
  IN  IF found # <<>> THEN found
      ELSE <<Risk(n + 1, meeting_id, NoRiskDescription, <<"l", "o", "w">>,
                  <<"a", "n", "a", "l", "y", "s", "i", "s">>)>>

\* lines 126-212: the six queries of detect_jira_risks, in order, with the
\* description and the extra key of their records
JiraQueries ==
  << [type |-> <<"o", "v", "e", "r", "d", "u", "e">>,
      description |-> <<"T", "a", "s", "k", " ", "i", "s", " ", "o", "v", "e", "r",
            "d", "u", "e", ".">>,
      extra |-> Some(KeyDueDate)],
     [type |-> <<"u", "n", "a", "s", "s", "i", "g", "n", "e", "d">>,
      description |-> <<"T", "a", "s", "k", " ", "i", "s", " ", "u", "n", "a", "s",
            "s", "i", "g", "n", "e", "d", ".">>,
      extra |-> None],
     [type |-> <<"b", "l", "o", "c", "k", "e", "d">>,
      description |-> <<"T", "a", "s", "k", " ", "i", "s", " ", "b", "l", "o", "c",
            "k", "e", "d", " ", "o", "r", " ", "f", "l", "a", "g", "g",
            "e", "d", ".">>,
      extra |-> None],
     [type |-> <<"n", "o", "_", "d", "u", "e", "_", "d", "a", "t", "e">>,
      description |-> <<"T", "a", "s", "k", " ", "h", "a", "s", " ", "n", "o", " ",
            "d", "u", "e", " ", "d", "a", "t", "e", ".">>,
      extra |-> None],
     [type |-> <<"s", "t", "a", "l", "e">>,
      description |-> <<"T", "a", "s", "k", " ", "n", "o", "t", " ", "u", "p", "d",
            "a", "t", "e", "d", " ", "i", "n", " ", "7", "+", " ", "d",
            "a", "y", "s", ".">>,
      extra |-> Some(KeyLastUpdated)],
     [type |-> <<"h", "i", "g", "h", "_", "p", "r", "i", "o", "r", "i", "t",
            "y">>,
      description |-> <<"H", "i", "g", "h", " ", "p", "r", "i", "o", "r", "i", "t",
            "y", " ", "t", "a", "s", "k", " ", "u", "n", "r", "e", "s",
            "o", "l", "v", "e", "d", ".">>,
      extra |-> Some(KeyPriority)] >>

\* the record of the i-th issue a query returns
JiraRisk(q, i) ==
  LET head == <<Pair(KeyType, Str(q.type)), Pair(KeyKey, Str(IssueKey(i))),
                Pair(KeySummary, Str(FixText))>>
      extra == IF q.extra = None THEN <<>>
               ELSE <<Pair(q.extra[1], NullValue)>>
      tail == <<Pair(KeyDescription, Str(q.description)),
                Pair(KeySource, Str(<<"j", "i", "r", "a">>))>>
  IN  Dict(head \o extra \o tail)

NoRiskOutcome ==
  [status |-> "none", risks |-> <<>>, summary_risks |-> <<>>,
   jira_risks |-> <<>>]

\* risk_tool.py lines 22-31: the params are read and detect is run
RiskDetect ==
  /\ pcRisk = "detect"
  /\ LET meeting_id == IF riskParams.meeting_id = None
                       THEN Str(DefaultMeetingId)
                       ELSE riskParams.meeting_id[1]
         found == detect(riskIds, meeting_id, riskParams.summary,
                         riskParams.tasks)
     IN  /\ summary_risks' = found
         /\ riskIds' = riskIds + Len(found)
  /\ pcRisk' = "include"
  /\ UNCHANGED <<riskParams, riskClient, jiraQuery, jira_risks, riskOutcome,
                 riskOthers>>

\* the Jira risks are included whatever the parameter says
AlwaysInclude(param, client) == TRUE

\* risk_tool.py lines 35-36: include_jira is the parameter when it is
\* given, else whether a client is configured
IncludeJira(param, client) == IF param # None THEN param[1] ELSE client

\* risk_tool.py lines 35-39: include_jira is the parameter, or whether a
\* client is configured; the Jira risks are asked for only with a client
RiskIncludeJira ==
  /\ pcRisk = "include"
  /\ LET include_jira == IncludeJira(riskParams.include_jira, riskClient)
     IN  IF include_jira /\ riskClient
         THEN pcRisk' = "jira" /\ jiraQuery' = 1
         ELSE pcRisk' = "merge" /\ UNCHANGED jiraQuery
  /\ UNCHANGED <<riskParams, riskClient, riskIds, summary_risks, jira_risks,
                 riskOutcome, riskOthers>>

\* risk_detection_agent.py lines 126-212, one of the six queries:
\* search_issues returns some issues and a record is appended for each, or
\* it raises and the query is passed over
RiskJiraQuery ==
  /\ pcRisk = "jira" /\ jiraQuery <= Len(JiraQueries)
  /\ \/ \E n \in 0..MaxIssues :
          jira_risks' = jira_risks \o
                          [i \in 1..n |-> JiraRisk(JiraQueries[jiraQuery], i)]
     \/ UNCHANGED jira_risks
  /\ jiraQuery' = jiraQuery + 1
  /\ UNCHANGED <<riskParams, riskClient, pcRisk, riskIds, summary_risks,
                 riskOutcome, riskOthers>>

\* risk_detection_agent.py line 214: return risks
RiskJiraReturn ==
  /\ pcRisk = "jira" /\ jiraQuery > Len(JiraQueries)
  /\ pcRisk' = "merge"
  /\ UNCHANGED <<riskParams, riskClient, riskIds, summary_risks, jiraQuery,
                 jira_risks, riskOutcome, riskOthers>>

\* risk_tool.py lines 43-50: the two lists are merged and returned
RiskMerge ==
  /\ pcRisk = "merge"
  /\ riskOutcome' = [status |-> "success",
                     risks |-> summary_risks \o jira_risks,
                     summary_risks |-> summary_risks,
                     jira_risks |-> jira_risks]
  /\ pcRisk' = "done"
  /\ UNCHANGED <<riskParams, riskClient, riskIds, summary_risks, jiraQuery,
                 jira_risks, riskOthers>>

NextRisk ==
  \/ RiskDetect \/ RiskIncludeJira \/ RiskJiraQuery \/ RiskJiraReturn
  \/ RiskMerge

\* summaries: none given, without and with risk terms, with blockers, a
\* text in place of a dict, and null
RiskSummaries ==
  { Dict(<<>>),
    Dict(<<Pair(KeySummaryText, Str(<<"A", "l", "l", " ", "g", "o", "o", "d">>))>>),
    Dict(<<Pair(KeySummaryText, Str(<<"R", "e", "l", "e", "a", "s", "e", " ", "i", "s", " ", "D",
        "e", "l", "a", "y", "e", "d">>))>>),
    Dict(<<Pair(KeyBlockers, List(<<Str(<<"d", "b">>), Str(BobText)>>)),
           Pair(KeySummaryText, Str(<<"o", "k">>))>>),
    Dict(<<Pair(KeyBlockers, List(<<Dict(<<Pair(KeyOwner, Str(BobText))>>)>>)),
           Pair(KeySummaryText, Str(<<"R", "i", "s", "k", " ", "o", "f", " ", "s", "l", "i", "p">>))>>),
    Str(<<"p", "e", "n", "d", "i", "n", "g", " ", "r", "e", "v", "i",
        "e", "w">>),
    NullValue }

RiskCalls ==
  [meeting_id : {None, Some(Str(<<"m", "1">>))},
   summary : RiskSummaries,
   tasks : {0, ManyTasks, ManyTasks + 1},
   include_jira : {None, Some(TRUE), Some(FALSE)}]

RiskIdle ==
  /\ riskParams = [meeting_id |-> None, summary |-> Dict(<<>>), tasks |-> 0,
                   include_jira |-> None]
  /\ riskClient = FALSE /\ pcRisk = "idle" /\ riskIds = 0
  /\ summary_risks = <<>> /\ jiraQuery = 0 /\ jira_risks = <<>>
  /\ riskOutcome = NoRiskOutcome

RiskEntry ==
  /\ riskParams \in RiskCalls /\ riskClient \in BOOLEAN
  /\ pcRisk = "detect" /\ riskIds = 0
  /\ summary_risks = <<>> /\ jiraQuery = 0 /\ jira_risks = <<>>
  /\ riskOutcome = NoRiskOutcome

(***************************************************************************)
(* agents/notification_agent.py: handle_notify_message reads the parts of  *)
(* a message in order, calls notify and answers with a result part.  A     *)
(* part is its kind (the "type" of the part) and its content.              *)
(***************************************************************************)
\* lines 56-63: the kinds the handler knows
MeetingIdKinds == {"meeting_id"}
SummaryKinds == {"summary"}
TaskKinds == {"task", "action_item"}
RiskKinds == {"risk"}

\* line 65
UnknownMeeting ==
    <<"u", "n", "k", "n", "o", "w", "n">>

\* lines 50-53: the locals before the loop; null stands for None
NoNotifyArgs ==
  [meeting_id |-> NullValue, summary |-> NullValue, tasks |-> <<>>,
   risks |-> <<>>]

\* lines 54-63, one pass of "for part in msg.parts"
NotifyPart(acc, part) ==
  IF part.kind \in MeetingIdKinds THEN [acc EXCEPT !.meeting_id = part.content]
  ELSE IF part.kind \in SummaryKinds THEN [acc EXCEPT !.summary = part.content]
  ELSE IF part.kind \in TaskKinds
  THEN [acc EXCEPT !.tasks = Append(@, part.content)]
  ELSE IF part.kind \in RiskKinds
  THEN [acc EXCEPT !.risks = Append(@, part.content)]
  ELSE acc

\* lines 54-63: the locals after the first n parts
RECURSIVE NotifyLoop(_, _)
NotifyLoop(parts, n) ==
  IF n = 0 THEN NoNotifyArgs
  ELSE NotifyPart(NotifyLoop(parts, n - 1), parts[n])

\* lines 64-67: the defaults of meeting_id and summary
NotifyDefaults(acc) ==
  [acc EXCEPT !.meeting_id = IF Truthy(@) THEN @ ELSE Str(UnknownMeeting),
              !.summary = IF @ = NullValue THEN Str(<<>>) ELSE @]

\* lines 50-69: the parts are read and notify is called
NotifyHandle ==
  /\ pcNotify = "handle"
  /\ notifyArgs' = NotifyDefaults(NotifyLoop(notifyParts, Len(notifyParts)))
  /\ pcNotify' = "notify"
  /\ UNCHANGED <<notifyParts, notifyResponse, notifyOthers>>

\* lines 29-45 and 70-79: notify returns True and the response carries one
\* result part with {"notified": true}
NotifyRespond ==
  /\ pcNotify = "notify"
  /\ notifyResponse' =
       <<Part("result",
              Dict(<<Pair(<<"n", "o", "t", "i", "f", "i", "e", "d">>,
                          Lit(<<"t", "r", "u", "e">>))>>))>>
  /\ pcNotify' = "done"
  /\ UNCHANGED <<notifyParts, notifyArgs, notifyOthers>>

NextNotify == NotifyHandle \/ NotifyRespond

\* parts of every kind the handler knows, two of each single-valued kind,
\* and a part of a kind it does not know
NotifyPartChoices ==
  { Part("meeting_id", Str(<<"m", "1">>)), Part("meeting_id", Str(<<"m", "2">>)),
    Part("summary", Str(<<"s", "1">>)), Part("summary", Str(<<"s", "2">>)),
    Part("task", Str(<<"t", "1">>)), Part("action_item", Str(<<"t", "2">>)),
    Part("risk", Str(<<"r", "1">>)), Part("audio", Str(<<"x">>)) }

NotifyIdle ==
  /\ notifyParts = <<>> /\ pcNotify = "idle" /\ notifyArgs = NoNotifyArgs
  /\ notifyResponse = <<>>

NotifyEntry ==
  /\ notifyParts \in SeqsUpTo(NotifyPartChoices, MaxNotifyParts)
  /\ pcNotify = "handle" /\ notifyArgs = NoNotifyArgs
  /\ notifyResponse = <<>>

(***************************************************************************)
(* server/mcp_api.py: the handlers call_calendar, call_transcript,         *)
(* call_summarize, call_jira and call_risk running together on one host.   *)
(* A handler creates a session, awaits execute_tool, ends the session and  *)
(* returns; another handler can run while it awaits.  The handlers have no *)
(* try block: an exception of execute_tool leaves the handler at the       *)
(* await.  The host keeps its active sessions in a mapping keyed by        *)
(* session id.                                                             *)
(***************************************************************************)
Handlers == 1..MaxHandlers

\* the endpoints whose handler creates a session
SessionEndpoints == Endpoints \ {"/mcp/orchestrate"}

\* how the awaited execute_tool ends: the outcome of the tool says
\* success, the outcome says error, or an exception is raised
ExecuteEnds == {"success", "error", "raised"}

\* session_id = mcp_host.create_session(agent_id="http-client"), the
\* params are built and execute_tool is awaited
HandlerCreateSession(h) ==
  /\ pcHandler[h] = "start"
  /\ sessionCount' = sessionCount + 1
  /\ handlerSession' = [handlerSession EXCEPT ![h] = sessionCount + 1]
  /\ activeSessions' = activeSessions \cup {sessionCount + 1}
  /\ hostCalls' = Append(hostCalls,
                         [session |-> sessionCount + 1,
                          tool |-> ToolOfEndpoint(handlerEndpoint[h])])
  /\ pcHandler' = [pcHandler EXCEPT ![h] = "awaiting"]
  /\ UNCHANGED <<handlerEndpoint, sessionOthers>>

\* execute_tool returns its outcome: mcp_host.end_session(session_id) and
\* return result
HandlerEndSession(h) ==
  /\ pcHandler[h] = "awaiting"
  /\ \E outcomeStatus \in ExecuteEnds \ {"raised"} :
       pcHandler' = [pcHandler EXCEPT ![h] = outcomeStatus]
  /\ activeSessions' = activeSessions \ {handlerSession[h]}
  /\ UNCHANGED <<handlerEndpoint, handlerSession, sessionCount, hostCalls,
                 sessionOthers>>

\* execute_tool raises: the exception leaves the handler, and the lines
\* after the await are not run
HandlerRaises(h) ==
  /\ pcHandler[h] = "awaiting"
  /\ pcHandler' = [pcHandler EXCEPT ![h] = "raised"]
  /\ UNCHANGED <<handlerEndpoint, handlerSession, activeSessions,
                 sessionCount, hostCalls, sessionOthers>>

NextSessions ==
  \E h \in Handlers :
    HandlerCreateSession(h) \/ HandlerEndSession(h) \/ HandlerRaises(h)

SessionsIdle ==
  /\ handlerEndpoint = [h \in Handlers |-> "/mcp/calendar"]
  /\ pcHandler = [h \in Handlers |-> "idle"]
  /\ handlerSession = [h \in Handlers |-> 0]
  /\ activeSessions = {} /\ sessionCount = 0 /\ hostCalls = <<>>

\* requests have reached their handlers; no session exists yet
SessionsEntry ==
  /\ handlerEndpoint \in [Handlers -> SessionEndpoints]
  /\ pcHandler = [h \in Handlers |-> "start"]
  /\ handlerSession = [h \in Handlers |-> 0]
  /\ activeSessions = {} /\ sessionCount = 0 /\ hostCalls = <<>>

(***************************************************************************)
(* agents/transcript_preprocessing_agent.py: process cleans each           *)
(* transcript and cuts its words into chunks of chunk_size words.  The     *)
(* characters considered are ASCII, which unicodedata.normalize('NFKC')    *)
(* leaves unchanged.                                                       *)
(***************************************************************************)

\* contractions, in the order of the dict
Contractions ==
  << <<<<"c", "a", "n", "'", "t">>, <<"c", "a", "n", "n", "o", "t">>>>,
     <<<<"w", "o", "n", "'", "t">>, <<"w", "i", "l", "l", " ", "n", "o", "t">>>>,
     <<<<"n", "'", "t">>, <<" ", "n", "o", "t">>>>,
     <<<<"'", "r", "e">>, <<" ", "a", "r", "e">>>>,
     <<<<"'", "s">>, <<" ", "i", "s">>>>,
     <<<<"'", "d">>, <<" ", "w", "o", "u", "l", "d">>>>,
     <<<<"'", "l", "l">>, <<" ", "w", "i", "l", "l">>>>,
     <<<<"'", "t">>, <<" ", "n", "o", "t">>>>,
     <<<<"'", "v", "e">>, <<" ", "h", "a", "v", "e">>>>,
     <<<<"'", "m">>, <<" ", "a", "m">>>> >>

\* filler_words, without the \b at both ends
FillerWords ==
  << <<"u", "m">>, <<"u", "h">>, <<"y", "o", "u", " ", "k", "n", "o", "w">>,
     <<"l", "i", "k", "e">>, <<"o", "k", "a", "y">>, <<"s", "o">>, <<"w", "e", "l", "l">> >>

\* re.sub(k, v, s) for a pattern k without special characters, from index
\* i on
RECURSIVE SubLiteralFrom(_, _, _, _)
SubLiteralFrom(s, i, k, v) ==
  IF \E j \in i..Len(s) : MatchAt(s, j, k)
  THEN LET m == CHOOSE j \in i..Len(s) :
                  MatchAt(s, j, k) /\ \A h \in i..(j - 1) : ~MatchAt(s, h, k)
       IN  SubSeq(s, i, m - 1) \o v \o SubLiteralFrom(s, m + Len(k), k, v)
  ELSE SubSeq(s, i, Len(s))

\* for k, v in contractions.items(): text = re.sub(k, v, text), from the
\* n-th contraction on; a pattern that does not occur leaves the text as it
\* is
RECURSIVE ExpandFrom(_, _)
ExpandFrom(s, n) ==
  IF n > Len(Contractions) THEN s
  ELSE IF Contains(s, Contractions[n][1])
       THEN ExpandFrom(SubLiteralFrom(s, 1, Contractions[n][1],
                                      Contractions[n][2]),
                       n + 1)
       ELSE ExpandFrom(s, n + 1)

expand_contractions(s) == ExpandFrom(s, 1)

\* timestamp_pattern r'\[\d{1,2}:\d{2}(:\d{2})?\]' matched at index i: the
\* index of the closing bracket (0: no match)
TimestampEnd(s, i) ==
  IF ~MatchAt(s, i, <<"[">>) THEN 0
  ELSE LET d == RunEnd(s, i + 1, DigitSet) - i
           c == i + d + 1
       IN  IF d \in {1, 2} /\ MatchAt(s, c, <<":">>) /\ DigitsAt(s, c + 1, 2)
           THEN IF MatchAt(s, c + 3, <<"]">>) THEN c + 3
                ELSE IF /\ MatchAt(s, c + 3, <<":">>)
                        /\ DigitsAt(s, c + 4, 2)
                        /\ MatchAt(s, c + 6, <<"]">>)
                     THEN c + 6
                     ELSE 0
           ELSE 0

\* re.sub(timestamp_pattern, '', s) from index i on
RECURSIVE RemoveTimestampsFrom(_, _)
RemoveTimestampsFrom(s, i) ==
  IF \E j \in i..Len(s) : TimestampEnd(s, j) # 0
  THEN LET m == CHOOSE j \in i..Len(s) :
                  /\ TimestampEnd(s, j) # 0
                  /\ \A h \in i..(j - 1) : TimestampEnd(s, h) = 0
       IN  SubSeq(s, i, m - 1) \o RemoveTimestampsFrom(s, TimestampEnd(s, m) + 1)
  ELSE SubSeq(s, i, Len(s))

\* speaker_tag_pattern r'^\s*([A-Za-z]+ ?\d*):' with re.MULTILINE matched at
\* index i: the index of the colon (0: no match)
SpeakerTagEnd(s, i) ==
  IF ~(i = 1 \/ s[i - 1] = "\n") THEN 0
  ELSE LET a == RunEnd(s, i, SpaceSet) + 1
           b == RunEnd(s, a, LetterSet)
           c == IF MatchAt(s, b + 1, <<" ">>) THEN b + 2 ELSE b + 1
           d == RunEnd(s, c, DigitSet) + 1
       IN  IF b >= a /\ MatchAt(s, d, <<":">>) THEN d ELSE 0

\* re.sub(speaker_tag_pattern, '', s, flags=re.MULTILINE) from index i on
RECURSIVE RemoveSpeakerTagsFrom(_, _)
RemoveSpeakerTagsFrom(s, i) ==
  IF \E j \in i..Len(s) : SpeakerTagEnd(s, j) # 0
  THEN LET m == CHOOSE j \in i..Len(s) :
                  /\ SpeakerTagEnd(s, j) # 0
                  /\ \A h \in i..(j - 1) : SpeakerTagEnd(s, h) = 0
       IN  SubSeq(s, i, m - 1) \o RemoveSpeakerTagsFrom(s, SpeakerTagEnd(s, m) + 1)
  ELSE SubSeq(s, i, Len(s))

\* r'\bw\b' matched at index i
FillerAt(s, i, w) ==
  /\ MatchAt(s, i, w)
  /\ (i = 1 \/ s[i - 1] \notin WordSet)
  /\ (i + Len(w) > Len(s) \/ s[i + Len(w)] \notin WordSet)

\* re.sub(fw, '', s) from index i on
RECURSIVE RemoveFillerFrom(_, _, _)
RemoveFillerFrom(s, i, w) ==
  IF \E j \in i..Len(s) : FillerAt(s, j, w)
  THEN LET m == CHOOSE j \in i..Len(s) :
                  FillerAt(s, j, w) /\ \A h \in i..(j - 1) : ~FillerAt(s, h, w)
       IN  SubSeq(s, i, m - 1) \o RemoveFillerFrom(s, m + Len(w), w)
  ELSE SubSeq(s, i, Len(s))

\* for fw in filler_words: text = re.sub(fw, '', text), from the n-th
\* filler word on; a pattern that does not occur leaves the text as it is
RECURSIVE RemoveFillersFrom(_, _)
RemoveFillersFrom(s, n) ==
  IF n > Len(FillerWords) THEN s
  ELSE IF \E j \in 1..Len(s) : FillerAt(s, j, FillerWords[n])
       THEN RemoveFillersFrom(RemoveFillerFrom(s, 1, FillerWords[n]), n + 1)
       ELSE RemoveFillersFrom(s, n + 1)

\* special_char_pattern r'[^\w\s.,?!]': the characters that stay
KeptChars == WordSet \cup SpaceSet \cup {".", ",", "?", "!"}

IsKeptChar(c) == c \in KeptChars

\* re.sub(r'\s+', ' ', s) from index i on
RECURSIVE CollapseSpacesFrom(_, _)
CollapseSpacesFrom(s, i) ==
  IF i > Len(s) THEN <<>>
  ELSE IF s[i] \in SpaceSet
       THEN <<" ">> \o CollapseSpacesFrom(s, RunEnd(s, i, SpaceSet) + 1)
       ELSE SubSeq(s, i, RunEndNot(s, i, SpaceSet))
            \o CollapseSpacesFrom(s, RunEndNot(s, i, SpaceSet) + 1)

\* clean_text
clean_text(s) ==
  LET lowered == LowerSeq(s)
      expanded == expand_contractions(lowered)
      untimed == RemoveTimestampsFrom(expanded, 1)
      untagged == RemoveSpeakerTagsFrom(untimed, 1)
      unfilled == RemoveFillersFrom(untagged, 1)
      plain == SelectSeq(unfilled, IsKeptChar)
  IN  Strip(CollapseSpacesFrom(plain, 1))

\* the indexes i of range(0, n, chunk_size), in order
RangeStarts(n, chunk_size) ==
  [k \in 1..((n + chunk_size - 1) \div chunk_size) |-> (k - 1) * chunk_size]

\* ' '.join(words[i:i+chunk_size])
ChunkAt(words, i, chunk_size) ==
  JoinWith(<<" ">>, SubSeq(words, i + 1, Min(i + chunk_size, Len(words))))

IsNonEmpty(s) == s # <<>>

\* every word of the transcript in one chunk
OneChunk(words, chunk_size) ==
  SelectSeq(<<JoinWith(<<" ">>, words)>>, IsNonEmpty)

\* the chunks the inner loop appends for the words of one transcript
WordChunks(words, chunk_size) ==
  SelectSeq([k \in DOMAIN RangeStarts(Len(words), chunk_size) |->
               ChunkAt(words, RangeStarts(Len(words), chunk_size)[k],
                       chunk_size)],
            IsNonEmpty)

\* processed[:3]
FirstThree(s) == SubSeq(s, 1, Min(3, Len(s)))

\* one pass of "for t in transcripts" on a transcript that is empty after
\* strip(): continue
PrepSkip ==
  /\ prepReturn = None
  /\ prepIndex <= Len(prepTranscripts)
  /\ Strip(prepTranscripts[prepIndex]) = <<>>
  /\ prepIndex' = prepIndex + 1
  /\ UNCHANGED <<prepTranscripts, prepChunkSize, prepProcessed,
                 prepTotalWords, prepReturn, prepOthers>>

\* one pass of "for t in transcripts": clean, split, count the words and
\* append the chunks
PrepChunk ==
  /\ prepReturn = None
  /\ prepIndex <= Len(prepTranscripts)
  /\ Strip(prepTranscripts[prepIndex]) # <<>>
  /\ LET words == Split(clean_text(Strip(prepTranscripts[prepIndex])))
     IN  /\ prepTotalWords' = prepTotalWords + Len(words)
         /\ prepProcessed' = prepProcessed \o WordChunks(words, prepChunkSize)
  /\ prepIndex' = prepIndex + 1
  /\ UNCHANGED <<prepTranscripts, prepChunkSize, prepReturn, prepOthers>>

\* debug_info and the dict returned
PrepReturn ==
  /\ prepReturn = None
  /\ prepIndex > Len(prepTranscripts)
  /\ prepReturn' =
       Some([processed |-> prepProcessed,
             debug |-> [input_transcripts |-> Len(prepTranscripts),
                        total_words |-> prepTotalWords,
                        chunk_size |-> prepChunkSize,
                        chunks_produced |-> Len(prepProcessed),
                        sample_chunks |-> FirstThree(prepProcessed)]])
  /\ UNCHANGED <<prepTranscripts, prepChunkSize, prepIndex, prepProcessed,
                 prepTotalWords, prepOthers>>

NextPrep == PrepSkip \/ PrepChunk \/ PrepReturn

\* pieces of text a transcript is made of
PrepPieces ==
  { <<" ", " ">>,
    <<"B", "o", "b", ":", " ", "U", "m", " ", "w", "e", " ", "c", "a",
    "n", "'", "t">>,
    <<"[", "1", ":", "0", "2", "]", " ", "G", "o", "#", "n", "o", "w",
    "\n">> }

\* the transcripts of at most n pieces
RECURSIVE PrepTexts(_)
PrepTexts(n) ==
  IF n = 0 THEN {<<>>}
  ELSE PrepTexts(n - 1)
         \cup {p \o t : p \in PrepPieces, t \in PrepTexts(n - 1)}

PrepIdle ==
  /\ prepTranscripts = <<>> /\ prepChunkSize = 1 /\ prepIndex = 0
  /\ prepProcessed = <<>> /\ prepTotalWords = 0 /\ prepReturn = None

\* process(transcripts, chunk_size) is entered: processed = [],
\* total_words = 0
PrepEntry ==
  /\ prepTranscripts \in SeqsUpTo(PrepTexts(MaxPieces), MaxTranscripts)
  /\ prepChunkSize \in 1..MaxChunkSize
  /\ prepIndex = 1
  /\ prepProcessed = <<>> /\ prepTotalWords = 0 /\ prepReturn = None

(***************************************************************************)
(* ui/streamlit_agent_client.py: the chat input handler.  The prompts      *)
(* considered are one line of ASCII characters, so "." matches every       *)
(* character, "$" matches at the end only, and the quotation marks are the *)
(* ASCII ones.                                                             *)
(***************************************************************************)

\* ["\u201c\u201d] on ASCII text
QuoteSet == {"\""}

\* ["\'"]
QuoteOrApostrophe == {"\"", "'"}

\* the least element of a non-empty set of integers
MinOf(S) == CHOOSE x \in S : \A y \in S : x <= y

\* the indexes at which r'["..."](?P<tq>[^"..."]+)["..."]' matches
QuotedStarts(s) ==
  {i \in 1..Len(s) :
     /\ s[i] \in QuoteSet
     /\ i + 1 <= Len(s) /\ s[i + 1] \notin QuoteSet
     /\ RunEndNot(s, i + 1, QuoteSet) < Len(s)}

\* mq.group("tq").strip() of the first match (None: no match)
QuotedTitle(s) ==
  IF QuotedStarts(s) = {} THEN None
  ELSE LET i == MinOf(QuotedStarts(s))
       IN  Some(Strip(SubSeq(s, i + 1, RunEndNot(s, i + 1, QuoteSet))))

\* an optional literal at index pos: the index after it, if it is there
AfterOpt(low, pos, lit) ==
  IF MatchAt(low, pos, lit) THEN <<pos + Len(lit)>> ELSE <<>>

\* an optional literal after at least n whitespace characters
AfterSpacesOpt(low, pos, n, lit) ==
  LET w == RunEnd(low, pos, SpaceSet) + 1
  IN  IF w - pos >= n /\ MatchAt(low, w, lit) THEN <<w + Len(lit)>> ELSE <<>>

\* the positions in cands, each followed by what the alternatives allow:
\* (?: for|:)? tried in the order " for", ":", nothing
RECURSIVE ThenForOrColon(_, _)
ThenForOrColon(low, cands) ==
  IF cands = <<>> THEN <<>>
  ELSE AfterOpt(low, Head(cands), <<" ", "f", "o", "r">>)
         \o AfterOpt(low, Head(cands), <<":">>)
         \o <<Head(cands)>>
         \o ThenForOrColon(low, Tail(cands))

\* (?:\s*for|:)? or (?:\s+for|:)?, n the least number of spaces
RECURSIVE ThenSpacesForOrColon(_, _, _)
ThenSpacesForOrColon(low, cands, n) ==
  IF cands = <<>> THEN <<>>
  ELSE AfterSpacesOpt(low, Head(cands), n, <<"f", "o", "r">>)
         \o AfterOpt(low, Head(cands), <<":">>)
         \o <<Head(cands)>>
         \o ThenSpacesForOrColon(low, Tail(cands), n)

\* an optional literal tried before nothing, at each position of cands
RECURSIVE ThenOpt(_, _, _)
ThenOpt(low, cands, lit) ==
  IF cands = <<>> THEN <<>>
  ELSE AfterOpt(low, Head(cands), lit) \o <<Head(cands)>>
         \o ThenOpt(low, Tail(cands), lit)

\* the first position of cands at which \s*(?P<tu>.+...) can match: a
\* character is left for the group (0: none)
FirstUsable(s, cands) ==
  IF \E k \in DOMAIN cands : cands[k] <= Len(s)
  THEN cands[MinOf({k \in DOMAIN cands : cands[k] <= Len(s)})]
  ELSE 0

\* \s* before the group: greedy, but a character is left for the group
GroupStart(s, pos) == Min(RunEnd(s, pos, SpaceSet) + 1, Len(s))

\* (?P<tu>.+?)(?:$|\s{2,}|["\']): the index of the last character of the
\* group that starts at q
LazyEnd(s, q) ==
  MinOf({e \in q..Len(s) :
           \/ e = Len(s)
           \/ s[e + 1] \in QuoteOrApostrophe
           \/ e + 2 <= Len(s) /\ s[e + 1] \in SpaceSet /\ s[e + 2] \in SpaceSet})

\* the positions after the keyword and its optional words, in the order
\* the pattern tries them, for a match that starts at index i
\* summarize / preprocess: (?: this)?(?: meeting)?(?: for|:)?
CommandCands(low, i, kw) ==
  IF ~MatchAt(low, i, kw) THEN <<>>
  ELSE ThenForOrColon(low,
         ThenOpt(low,
           ThenOpt(low, <<i + Len(kw)>>, <<" ", "t", "h", "i", "s">>),
           <<" ", "m", "e", "e", "t", "i", "n", "g">>))

\* detect\s*risks?(?: for|:)?
RiskCands(low, i) ==
  LET w == RunEnd(low, i + 6, SpaceSet) + 1
  IN  IF MatchAt(low, i, <<"d", "e", "t", "e", "c", "t">>)
         /\ MatchAt(low, w, <<"r", "i", "s", "k">>)
      THEN ThenForOrColon(low, ThenOpt(low, <<w + 4>>, <<"s">>))
      ELSE <<>>

\* create\s*jira(?:\s*for|:)?
JiraCands(low, i) ==
  LET w == RunEnd(low, i + 6, SpaceSet) + 1
  IN  IF MatchAt(low, i, <<"c", "r", "e", "a", "t", "e">>)
         /\ MatchAt(low, w, <<"j", "i", "r", "a">>)
      THEN ThenSpacesForOrColon(low, <<w + 4>>, 0)
      ELSE <<>>

\* notify(?:\s+team)?(?:\s+for|:)?
NotifyCands(low, i) ==
  IF ~MatchAt(low, i, <<"n", "o", "t", "i", "f", "y">>) THEN <<>>
  ELSE ThenSpacesForOrColon(low,
         AfterSpacesOpt(low, i + 6, 1, <<"t", "e", "a", "m">>) \o <<i + 6>>,
         1)

\* the candidates of the pattern of a rule at index i
RuleCands(rule, low, i) ==
  CASE rule = "summarize" ->
         CommandCands(low, i, <<"s", "u", "m", "m", "a", "r", "i", "z", "e">>)
    [] rule = "preprocess" ->
         CommandCands(low, i, <<"p", "r", "e", "p", "r", "o", "c", "e", "s", "s">>)
    [] rule = "risk" -> RiskCands(low, i)
    [] rule = "jira" -> JiraCands(low, i)
    [] rule = "notify" -> NotifyCands(low, i)

\* the indexes at which the pattern of the rule matches (re.I)
RuleStarts(rule, s) ==
  {i \in 1..Len(s) : FirstUsable(s, RuleCands(rule, LowerSeq(s), i)) # 0}

\* (m.group("tu") or "").strip() of re.search (None: no match): the group
\* is lazy for summarize, preprocess and risk, and runs to the end of the
\* prompt for jira and notify
UnquotedTitle(rule, s) ==
  IF RuleStarts(rule, s) = {} THEN None
  ELSE LET i == MinOf(RuleStarts(rule, s))
           q == GroupStart(s, FirstUsable(s, RuleCands(rule, LowerSeq(s), i)))
       IN  Some(Strip(SubSeq(s, q,
                             IF rule \in {"jira", "notify"} THEN Len(s)
                             ELSE LazyEnd(s, q))))

\* the indexes at which r"\s{2,}|(?i:\sbut\s)|(?i:\sand\s)|[\"']" matches
SeparatorStarts(s) ==
  {j \in 1..Len(s) :
     \/ s[j] \in QuoteOrApostrophe
     \/ /\ s[j] \in SpaceSet
        /\ \/ j + 1 <= Len(s) /\ s[j + 1] \in SpaceSet
           \/ /\ \/ MatchAt(LowerSeq(s), j + 1, <<"b", "u", "t">>)
                 \/ MatchAt(LowerSeq(s), j + 1, <<"a", "n", "d">>)
              /\ j + 4 <= Len(s) /\ s[j + 4] \in SpaceSet}

\* re.split(...)[0].strip()
SplitHead(s) ==
  IF SeparatorStarts(s) = {} THEN Strip(s)
  ELSE Strip(SubSeq(s, 1, MinOf(SeparatorStarts(s)) - 1))

\* the title of a command: quoted first, else what follows the command;
\* <<>> stands for None and for the empty title, both false.  The rules
\* summarize, risk and preprocess cut the title at a separator.
TitleOfCommand(rule, s) ==
  LET title == IF QuotedTitle(s) # None THEN QuotedTitle(s)[1]
               ELSE IF UnquotedTitle(rule, s) # None
                    THEN UnquotedTitle(rule, s)[1]
                    ELSE <<>>
  IN  IF rule \in {"jira", "notify"} \/ title = <<>> THEN title
      ELSE SplitHead(title)

\* set(re.findall(r"\w+", s.lower()))
WordsOf(s) ==
  LET low == LowerSeq(s)
  IN  {SubSeq(low, i, RunEnd(low, i, WordSet)) :
         i \in {j \in 1..Len(low) :
                  low[j] \in WordSet /\ (j = 1 \/ low[j - 1] \notin WordSet)}}

\* sum(1 for w in set(s_words) if w in title.lower())
OverlapScore(s, title) ==
  Cardinality({w \in WordsOf(s) : Contains(LowerSeq(title), w)})

\* the first index of scores with the greatest score, if that is above 0
\* (0: none): "if score > best_score" starting from best_score = 0
BestIndex(scores) ==
  IF \A k \in DOMAIN scores : scores[k] = 0 THEN 0
  ELSE MinOf({k \in DOMAIN scores :
                \A j \in DOMAIN scores : scores[j] <= scores[k]})

\* the first index for which the test holds (0: none): a loop with break
FirstIndex(tests) ==
  IF \A k \in DOMAIN tests : ~tests[k] THEN 0
  ELSE MinOf({k \in DOMAIN tests : tests[k]})

\* "if not title": the first event whose summary is not empty and occurs
\* in the prompt
BySummaryInPrompt(s, events) ==
  FirstIndex([k \in DOMAIN events |->
                events[k].summary # <<>>
                /\ Contains(LowerSeq(s), LowerSeq(events[k].summary))])

\* the event matched by the rules summarize, risk and preprocess: by the
\* summary in the prompt when there is no title; else by the greatest
\* overlap score above 0; else by containment one way or the other
MatchEvent(s, title, events) ==
  LET bySummary == IF title = <<>> THEN BySummaryInPrompt(s, events) ELSE 0
      byScore ==
        IF title # <<>> /\ bySummary = 0
        THEN BestIndex([k \in DOMAIN events |->
                          OverlapScore(events[k].summary, title)])
        ELSE bySummary
  IN  IF byScore = 0 /\ title # <<>>
      THEN FirstIndex([k \in DOMAIN events |->
              \/ Contains(LowerSeq(events[k].summary), LowerSeq(title))
              \/ Contains(LowerSeq(title), LowerSeq(events[k].summary))])
      ELSE byScore

\* x or y, for texts
TextOr(x, y) == IF x # <<>> THEN x ELSE y

\* the event matched by the rule notify: the overlap is with the summary,
\* or the description of an event without one, and nothing follows it
MatchNotify(s, title, events) ==
  LET bySummary == IF title = <<>> THEN BySummaryInPrompt(s, events) ELSE 0
  IN  IF title # <<>> /\ bySummary = 0
      THEN BestIndex([k \in DOMAIN events |->
                        OverlapScore(TextOr(events[k].summary,
                                            events[k].description), title)])
      ELSE bySummary

\* int(s) for a text of digits
RECURSIVE IntOf(_)
IntOf(s) ==
  IF s = <<>> THEN 0
  ELSE 10 * IntOf(SubSeq(s, 1, Len(s) - 1))
         + (CHOOSE d \in 0..9 : ToString(d) = s[Len(s)])

\* it.get('summary') or it.get('task') or it.get('title') or ''
ItemLabel(it) == TextOr(it.summary, TextOr(it.task, it.title))

\* the action item matched by the rule jira: by its number, else by the
\* greatest overlap score above 0
MatchItem(title, actionItems) ==
  IF title = <<>> THEN 0
  ELSE IF (\A k \in DOMAIN title : title[k] \in DigitSet)
          /\ IntOf(title) \in DOMAIN actionItems
       THEN IntOf(title)
       ELSE BestIndex([k \in DOMAIN actionItems |->
                         OverlapScore(ItemLabel(actionItems[k]), title)])

\* the keywords of the rules
KwSummarize == <<"s", "u", "m", "m", "a", "r", "i", "z", "e">>
KwDetectRisk == <<"d", "e", "t", "e", "c", "t", " ", "r", "i", "s", "k">>
KwRisk == <<"r", "i", "s", "k">>
KwCreateJira == <<"c", "r", "e", "a", "t", "e", " ", "j", "i", "r", "a">>
KwCreateissue == <<"c", "r", "e", "a", "t", "e", "i", "s", "s", "u", "e">>
KwNotify == <<"n", "o", "t", "i", "f", "y">>
KwSendNotification == <<"s", "e", "n", "d", " ", "n", "o", "t", "i", "f", "i", "c", "a",
    "t", "i", "o", "n">>
KwNotifyTeam == <<"n", "o", "t", "i", "f", "y", " ", "t", "e", "a", "m">>
KwPreprocess == <<"p", "r", "e", "p", "r", "o", "c", "e", "s", "s">>

\* a call of orchestrator.orchestrate: the pipeline of the rule that made
\* it, the step, the meeting or task it names and the chunks it passes
Call(pipeline, step, meeting, chunks) ==
  [pipeline |-> pipeline, step |-> step, meeting |-> meeting,
   chunks |-> chunks]

\* kw in lower
InLower(s, kw) == Contains(LowerSeq(s), kw)

\* a cache that is never hit
NoCache(cache, title) == <<>>

\* cache.get(title): <<>> stands for None and for the empty list
CacheGet(cache, title) ==
  IF \E e \in cache : e.title = title
  THEN (CHOOSE e \in cache : e.title = title).chunks
  ELSE <<>>

\* cache[title] = chunks
CachePut(cache, title, chunks) ==
  {e \in cache : e.title # title} \cup {[title |-> title, chunks |-> chunks]}

\* what the preprocessing step returns: success with chunks, success
\* without chunks, or an error outcome
PreprocessOutcomes ==
  { [status |-> "success", processed |-> << <<"c", "1">>, <<"c", "2">> >>],
    [status |-> "success", processed |-> <<>>],
    [status |-> "error", processed |-> <<>>] }

\* the rule summarize: "summarize" in lower and last_events, and an event
\* is matched; the flow that follows is SumPreprocessCall ..
\* SumSummarizeReturn
ChatSummarize ==
  /\ pcChat = "summarize"
  /\ LET title == TitleOfCommand("summarize", prompt)
         k == MatchEvent(prompt, title, last_events)
     IN  IF /\ InLower(prompt, KwSummarize)
            /\ last_events # <<>>
            /\ k # 0
         THEN /\ chatMatched' = k
              /\ meeting_title' = last_events[k].summary
              /\ chatProcessed' =
                   CacheGet(processed_cache, last_events[k].summary)
              /\ pcChat' = "sum_start"
         ELSE /\ pcChat' = "risk"
              /\ UNCHANGED <<chatMatched, meeting_title, chatProcessed>>
  /\ UNCHANGED <<prompt, last_events, last_action_items, processed_cache,
                 handled, chatFlow, proc_summary, chatCalls, chatOthers>>

\* ui/renderers.py, the button "Summarize this meeting" of an event that
\* has a text: meeting_title = title, processed is read from the cache
ButtonSummarize ==
  /\ pcChat = "button"
  /\ TextOr(last_events[chatMatched].description,
            last_events[chatMatched].summary) # <<>>
  /\ meeting_title' = TextOr(last_events[chatMatched].summary,
                             last_events[chatMatched].id)
  /\ chatProcessed' = CacheGet(processed_cache, meeting_title')
  /\ pcChat' = "sum_start"
  /\ UNCHANGED <<prompt, last_events, last_action_items, processed_cache,
                 handled, chatMatched, chatFlow, proc_summary, chatCalls, chatOthers>>

\* "if not processed": the preprocessing call is issued
SumPreprocessCall ==
  /\ pcChat = "sum_start"
  /\ chatProcessed = <<>>
  /\ chatCalls' = Append(chatCalls,
                         Call("summarize", "preprocess", meeting_title, <<>>))
  /\ pcChat' = "sum_preprocessing"
  /\ UNCHANGED <<prompt, last_events, last_action_items, processed_cache,
                 handled, chatMatched, meeting_title, chatProcessed, chatFlow, proc_summary,
                 chatOthers>>

\* asyncio.run returns proc_result: on success processed is taken from it
\* and cached
SumPreprocessReturn ==
  /\ pcChat = "sum_preprocessing"
  /\ \E returned \in PreprocessOutcomes :
       /\ proc_summary' = Some(returned)
       /\ IF returned.status = "success"
          THEN /\ chatProcessed' = returned.processed
               /\ processed_cache' =
                    CachePut(processed_cache, meeting_title,
                             returned.processed)
          ELSE UNCHANGED <<chatProcessed, processed_cache>>
  /\ pcChat' = "sum_ready"
  /\ UNCHANGED <<prompt, last_events, last_action_items, handled,
                 chatMatched, meeting_title, chatFlow, chatCalls, chatOthers>>

\* the summarization call, with params processed_transcripts =
\* processed or []
SumSummarizeCall ==
  /\ \/ pcChat = "sum_ready"
     \/ pcChat = "sum_start" /\ chatProcessed # <<>>
  /\ chatCalls' = Append(chatCalls,
                         Call("summarize", "summarize", meeting_title,
                              chatProcessed))
  /\ pcChat' = "sum_summarizing"
  /\ UNCHANGED <<prompt, last_events, last_action_items, processed_cache,
                 handled, chatMatched, meeting_title, chatProcessed, chatFlow, proc_summary,
                 chatOthers>>

\* asyncio.run returns sum_result, the summary is rendered; in the chat
\* handled = True and the script goes on with the next rule
SumSummarizeReturn ==
  /\ pcChat = "sum_summarizing"
  /\ IF chatFlow = "chat"
     THEN handled' = TRUE /\ pcChat' = "risk"
     ELSE handled' = handled /\ pcChat' = "done"
  /\ UNCHANGED <<prompt, last_events, last_action_items, processed_cache,
                 chatMatched, meeting_title, chatProcessed, chatFlow, proc_summary,
                 chatCalls, chatOthers>>

\* the rule detect risk
ChatRisk ==
  /\ pcChat = "risk"
  /\ LET title == TitleOfCommand("risk", prompt)
         k == MatchEvent(prompt, title, last_events)
     IN  IF /\ \/ InLower(prompt, KwDetectRisk)
               \/ InLower(prompt, KwRisk)
            /\ last_events # <<>>
            /\ k # 0
         THEN /\ chatCalls' =
                   Append(chatCalls,
                          Call("risk", "risk",
                               TextOr(last_events[k].summary,
                                      last_events[k].id), <<>>))
              /\ handled' = TRUE
         ELSE UNCHANGED <<chatCalls, handled>>
  /\ pcChat' = "jira"
  /\ UNCHANGED <<prompt, last_events, last_action_items, processed_cache,
                 chatMatched, meeting_title, chatProcessed, chatFlow, proc_summary,
                 chatOthers>>

\* the rule create jira
ChatJira ==
  /\ pcChat = "jira"
  /\ LET k == MatchItem(TitleOfCommand("jira", prompt), last_action_items)
     IN  IF /\ \/ InLower(prompt, KwCreateJira)
               \/ InLower(prompt, KwCreateissue)
            /\ last_action_items # <<>>
            /\ k # 0
         THEN /\ chatCalls' =
                   Append(chatCalls,
                          Call("jira", "jira",
                               ItemLabel(last_action_items[k]), <<>>))
              /\ handled' = TRUE
         ELSE UNCHANGED <<chatCalls, handled>>
  /\ pcChat' = "notify"
  /\ UNCHANGED <<prompt, last_events, last_action_items, processed_cache,
                 chatMatched, meeting_title, chatProcessed, chatFlow, proc_summary,
                 chatOthers>>

\* the rule notify
ChatNotify ==
  /\ pcChat = "notify"
  /\ LET k == MatchNotify(prompt, TitleOfCommand("notify", prompt),
                          last_events)
     IN  IF /\ \/ InLower(prompt, KwNotify)
               \/ InLower(prompt, KwSendNotification)
               \/ InLower(prompt, KwNotifyTeam)
            /\ last_events # <<>>
            /\ k # 0
         THEN /\ chatCalls' =
                   Append(chatCalls,
                          Call("notify", "notify",
                               TextOr(last_events[k].summary,
                                      last_events[k].id), <<>>))
              /\ handled' = TRUE
         ELSE UNCHANGED <<chatCalls, handled>>
  /\ pcChat' = "preprocess"
  /\ UNCHANGED <<prompt, last_events, last_action_items, processed_cache,
                 chatMatched, meeting_title, chatProcessed, chatFlow, proc_summary,
                 chatOthers>>

\* the rule preprocess
ChatPreprocess ==
  /\ pcChat = "preprocess"
  /\ LET title == TitleOfCommand("preprocess", prompt)
         k == MatchEvent(prompt, title, last_events)
     IN  IF /\ InLower(prompt, KwPreprocess)
            /\ last_events # <<>>
            /\ k # 0
         THEN /\ chatCalls' =
                   Append(chatCalls,
                          Call("preprocess", "preprocess",
                               last_events[k].summary, <<>>))
              /\ handled' = TRUE
         ELSE UNCHANGED <<chatCalls, handled>>
  /\ pcChat' = "freeform"
  /\ UNCHANGED <<prompt, last_events, last_action_items, processed_cache,
                 chatMatched, meeting_title, chatProcessed, chatFlow, proc_summary,
                 chatOthers>>

\* "if not handled": the prompt is given to the orchestrator as it is
ChatFreeForm ==
  /\ pcChat = "freeform"
  /\ chatCalls' = IF handled THEN chatCalls
                  ELSE Append(chatCalls,
                              Call("freeform", "orchestrate", <<>>, <<>>))
  /\ pcChat' = "done"
  /\ UNCHANGED <<prompt, last_events, last_action_items, processed_cache,
                 handled, chatMatched, meeting_title, chatProcessed, chatFlow, proc_summary,
                 chatOthers>>

NextChat ==
  \/ ChatSummarize \/ ButtonSummarize
  \/ SumPreprocessCall \/ SumPreprocessReturn
  \/ SumSummarizeCall \/ SumSummarizeReturn
  \/ ChatRisk \/ ChatJira \/ ChatNotify \/ ChatPreprocess \/ ChatFreeForm

\* what a prompt begins with
CommandPhrases ==
  { <<"s", "u", "m", "m", "a", "r", "i", "z", "e", " ">>,
    <<"d", "e", "t", "e", "c", "t", " ", "r", "i", "s", "k", " ", "f",
    "o", "r", " ">>,
    <<"c", "r", "e", "a", "t", "e", " ", "j", "i", "r", "a", ":", " ">>,
    <<"n", "o", "t", "i", "f", "y", " ">>,
    <<"p", "r", "e", "p", "r", "o", "c", "e", "s", "s", " ", "t", "h",
    "i", "s", " ", "m", "e", "e", "t", "i", "n", "g", " ">>,
    <<"h", "e", "l", "l", "o", " ">>,
    <<"s", "u", "m", "m", "a", "r", "i", "z", "e", " ", "a", "n", "d",
    " ", "d", "e", "t", "e", "c", "t", " ", "r", "i", "s", "k", " ", "f",
    "o", "r", " ">>,
    <<"n", "o", "t", "i", "f", "y", " ", "t", "e", "a", "m", " ", "a",
    "n", "d", " ", "c", "r", "e", "a", "t", "e", " ", "j", "i", "r", "a",
    " ", "f", "o", "r", " ">> }

\* what a prompt ends with
TitlePhrases ==
  { <<>>,
    <<"\"", "B", "u", "d", "g", "e", "t", " ", "r", "e", "v", "i", "e",
    "w", "\"">>,
    <<"b", "u", "d", "g", "e", "t">>,
    <<"1">> }

Prompts == {c \o t : c \in CommandPhrases, t \in TitlePhrases}

\* events of the calendar: with a summary and a description, without a
\* summary, without a description
EventChoices ==
  { [id |-> <<"e", "1">>, summary |-> <<"B", "u", "d", "g", "e", "t", " ", "r", "e", "v", "i", "e",
        "w">>,
     description |-> <<"W", "e", " ", "c", "a", "n", "'", "t", " ", "s", "l", "i",
        "p">>],
    [id |-> <<"e", "2">>, summary |-> <<>>,
     description |-> <<"U", "n", "t", "i", "t", "l", "e", "d", " ", "s", "y", "n",
        "c">>],
    [id |-> <<"e", "3">>, summary |-> <<"S", "t", "a", "n", "d", "u", "p">>,
     description |-> <<>>] }

\* action items of an earlier summary
ItemChoices ==
  { <<>>,
    <<[summary |-> <<>>, task |-> <<"B", "u", "d", "g", "e", "t", " ", "p", "l", "a", "n">>, title |-> <<>>]>> }

\* the cache of processed chunks: empty, or with the chunks of a meeting
CacheChoices ==
  { {},
    {[title |-> <<"B", "u", "d", "g", "e", "t", " ", "r", "e", "v", "i", "e",
        "w">>,
      chunks |-> << <<"c", "0">> >>]} }

ChatIdle ==
  /\ prompt = <<>> /\ last_events = <<>> /\ last_action_items = <<>>
  /\ processed_cache = {} /\ pcChat = "idle" /\ handled = FALSE
  /\ chatMatched = 0 /\ meeting_title = <<>> /\ chatProcessed = <<>>
  /\ chatFlow = "chat" /\ proc_summary = None /\ chatCalls = <<>>

\* a prompt is submitted: handled = False
ChatEntry ==
  /\ prompt \in Prompts
  /\ last_events \in SeqsUpTo(EventChoices, MaxEvents)
  /\ last_action_items \in ItemChoices
  /\ processed_cache \in CacheChoices
  /\ pcChat = "summarize" /\ handled = FALSE
  /\ chatMatched = 0 /\ meeting_title = <<>> /\ chatProcessed = <<>>
  /\ chatFlow = "chat" /\ proc_summary = None /\ chatCalls = <<>>

\* the button "Summarize this meeting" of a listed event is pressed
ButtonEntry ==
  /\ prompt = <<>>
  /\ last_events \in SeqsUpTo(EventChoices, MaxEvents)
  /\ last_action_items \in ItemChoices
  /\ processed_cache \in CacheChoices
  /\ pcChat = "button" /\ handled = FALSE
  /\ chatMatched \in DOMAIN last_events
  /\ TextOr(last_events[chatMatched].description,
            last_events[chatMatched].summary) # <<>>
  /\ meeting_title = <<>> /\ chatProcessed = <<>>
  /\ chatFlow = "button" /\ proc_summary = None /\ chatCalls = <<>>

(***************************************************************************)
(* Specifications.                                                         *)
(***************************************************************************)

\* the scorer on assembled texts, with the default max_tasks
InitScore ==
  /\ ExtractEntry(ScoreTexts, {DefaultMaxTasks}, {1, DefaultMinConfidence})
  /\ DedupIdle /\ JsonIdle /\ MistralIdle /\ ToolsIdle
  /\ FilterIdle
  /\ LoaderIdle
  /\ ApiIdle
  /\ JiraIdle
  /\ RiskIdle
  /\ NotifyIdle
  /\ SessionsIdle
  /\ PrepIdle
  /\ ChatIdle

SpecScore == InitScore /\ [][NextExtract]_vars

\* the extraction loop on texts of whole sentences, max_tasks from 0
InitExtract ==
  /\ ExtractEntry(ExtractTexts, 0..MaxTasksArg, MinConfidences)
  /\ DedupIdle /\ JsonIdle /\ MistralIdle /\ ToolsIdle
  /\ FilterIdle
  /\ LoaderIdle
  /\ ApiIdle
  /\ JiraIdle
  /\ RiskIdle
  /\ NotifyIdle
  /\ SessionsIdle
  /\ PrepIdle
  /\ ChatIdle

SpecExtract == InitExtract /\ [][NextExtract]_vars

\* dedup_list on lists of strings and dicts
InitDedup == ExtractIdle /\ DedupEntry /\ JsonIdle /\ MistralIdle /\ ToolsIdle
  /\ FilterIdle
  /\ LoaderIdle
  /\ ApiIdle
  /\ JiraIdle
  /\ RiskIdle
  /\ NotifyIdle
  /\ SessionsIdle
  /\ PrepIdle
  /\ ChatIdle

SpecDedup == InitDedup /\ [][NextDedup]_vars

\* extract_last_json on short texts of braces, quotes, commas and prose
InitJson == ExtractIdle /\ DedupIdle /\ JsonEntry /\ MistralIdle /\ ToolsIdle
  /\ FilterIdle
  /\ LoaderIdle
  /\ ApiIdle
  /\ JiraIdle
  /\ RiskIdle
  /\ NotifyIdle
  /\ SessionsIdle
  /\ PrepIdle
  /\ ChatIdle

SpecJson == InitJson /\ [][NextJson]_vars

\* summarize_with_mistral on transcripts around the 10-word limit
InitMistral ==
  ExtractIdle /\ DedupIdle /\ JsonIdle /\ MistralEntry /\ ToolsIdle
  /\ FilterIdle
  /\ LoaderIdle
  /\ ApiIdle
  /\ JiraIdle
  /\ RiskIdle
  /\ NotifyIdle
  /\ SessionsIdle
  /\ PrepIdle
  /\ ChatIdle

SpecMistral == InitMistral /\ [][NextMistral]_vars

\* execute(params) of each of the five tools
InitTools == ExtractIdle /\ DedupIdle /\ JsonIdle /\ MistralIdle /\ ToolsEntry
  /\ FilterIdle
  /\ LoaderIdle
  /\ ApiIdle
  /\ JiraIdle
  /\ RiskIdle
  /\ NotifyIdle
  /\ SessionsIdle
  /\ PrepIdle
  /\ ChatIdle

SpecTools == InitTools /\ [][NextTools]_vars

\* lines 181-185 on the fields of a parsed object
InitFilter ==
  ExtractIdle /\ DedupIdle /\ JsonIdle /\ MistralIdle /\ ToolsIdle /\ FilterEntry
  /\ LoaderIdle
  /\ ApiIdle
  /\ JiraIdle
  /\ RiskIdle
  /\ NotifyIdle
  /\ SessionsIdle
  /\ PrepIdle
  /\ ChatIdle

SpecFilter == InitFilter /\ [][NextFilter]_vars

\* concurrent first calls of a model loader
InitLoader ==
  /\ ExtractIdle /\ DedupIdle /\ JsonIdle /\ MistralIdle /\ ToolsIdle
  /\ FilterIdle /\ LoaderEntry
  /\ ApiIdle
  /\ JiraIdle
  /\ RiskIdle
  /\ NotifyIdle
  /\ SessionsIdle
  /\ PrepIdle
  /\ ChatIdle

SpecLoader == InitLoader /\ [][NextLoader]_vars

\* one request to each endpoint under each environment
InitApi ==
  /\ ExtractIdle /\ DedupIdle /\ JsonIdle /\ MistralIdle /\ ToolsIdle
  /\ FilterIdle /\ LoaderIdle /\ ApiEntry
  /\ JiraIdle
  /\ RiskIdle
  /\ NotifyIdle
  /\ SessionsIdle
  /\ PrepIdle
  /\ ChatIdle

SpecApi == InitApi /\ [][NextApi]_vars

\* JiraTool.execute on lists of action items, and messages handled directly
InitJira ==
  /\ ExtractIdle /\ DedupIdle /\ JsonIdle /\ MistralIdle /\ ToolsIdle
  /\ FilterIdle /\ LoaderIdle /\ ApiIdle /\ JiraEntry
  /\ RiskIdle
  /\ NotifyIdle
  /\ SessionsIdle
  /\ PrepIdle
  /\ ChatIdle

SpecJira == InitJira /\ [][NextJira]_vars

\* RiskTool.execute on every choice of params, with and without a client
InitRisk ==
  /\ ExtractIdle /\ DedupIdle /\ JsonIdle /\ MistralIdle /\ ToolsIdle
  /\ FilterIdle /\ LoaderIdle /\ ApiIdle /\ JiraIdle /\ RiskEntry
  /\ NotifyIdle
  /\ SessionsIdle
  /\ PrepIdle
  /\ ChatIdle

SpecRisk == InitRisk /\ [][NextRisk]_vars

\* handle_notify_message on every message of up to MaxNotifyParts parts
InitNotify ==
  /\ ExtractIdle /\ DedupIdle /\ JsonIdle /\ MistralIdle /\ ToolsIdle
  /\ FilterIdle /\ LoaderIdle /\ ApiIdle /\ JiraIdle /\ RiskIdle
  /\ NotifyEntry
  /\ SessionsIdle
  /\ PrepIdle
  /\ ChatIdle

\* the two consumers of messages: the Jira handler and the notification
\* handler, each on its own message
InitEnvelope == InitJira \/ InitNotify

NextEnvelope == NextJira \/ NextNotify

SpecEnvelope == InitEnvelope /\ [][NextEnvelope]_vars

\* MaxHandlers requests handled together
InitSessions ==
  /\ ExtractIdle /\ DedupIdle /\ JsonIdle /\ MistralIdle /\ ToolsIdle
  /\ FilterIdle /\ LoaderIdle /\ ApiIdle /\ JiraIdle /\ RiskIdle
  /\ NotifyIdle /\ SessionsEntry
  /\ PrepIdle
  /\ ChatIdle

SpecSessions == InitSessions /\ [][NextSessions]_vars

\* one call of TranscriptPreprocessingAgent.process
InitPrep ==
  /\ ExtractIdle /\ DedupIdle /\ JsonIdle /\ MistralIdle /\ ToolsIdle
  /\ FilterIdle /\ LoaderIdle /\ ApiIdle /\ JiraIdle /\ RiskIdle
  /\ NotifyIdle /\ SessionsIdle /\ PrepEntry
  /\ ChatIdle

SpecPrep == InitPrep /\ [][NextPrep]_vars

\* one prompt of the chat, or one press of a summarize button
InitChat ==
  /\ ExtractIdle /\ DedupIdle /\ JsonIdle /\ MistralIdle /\ ToolsIdle
  /\ FilterIdle /\ LoaderIdle /\ ApiIdle /\ JiraIdle /\ RiskIdle
  /\ NotifyIdle /\ SessionsIdle /\ PrepIdle
  /\ (ChatEntry \/ ButtonEntry)

SpecChat == InitChat /\ [][NextChat]_vars

(***************************************************************************)
(* Claims about tools/nlp_task_extraction.py                               *)
(***************************************************************************)

\* the markers that make a sentence conditional
ClaimMarkers ==
  { <<" ", "i", "f", " ">>,
    <<" ", "m", "i", "g", "h", "t", " ">>,
    <<" ", "c", "o", "u", "l", "d", " ">>,
    <<" ", "m", "a", "y", "b", "e", " ">>,
    <<" ", "m", "a", "y", " ">>,
    <<" ", "i", "f", " ", "w", "e", " ">>,
    <<"w", "h", "e", "n", " ", "w", "e", " ">>,
    <<"w", "h", "e", "n", " ", "t", "h", "e", " ">> }

\* the sentence contains a marker, or starts with "if " (in any letter case)
ClaimConditional(s) ==
  \/ \E m \in ClaimMarkers : Contains(LowerSeq(s), m)
  \/ StartsWith(LowerSeq(s), <<"i", "f", " ">>)

\* the sentences the loop has scored so far
ScoredSentences == SubSeq(sentences, 1, Len(scored))

TaskRaws == [k \in 1..Len(tasks) |-> tasks[k].raw]

\* C8: the tasks are exactly the scored sentences whose score meets or
\* exceeds min_confidence, in sentence order; the owner+due+verb sentence
\* scores at least 0.4, the owner-only sentence scores exactly 0.4 and both
\* are emitted at the default threshold; the sentence without signal scores 0
\* and is not.
C8_ThresholdInclusive ==
  LET Qualifies(s) == score_action_sentence(s) >= min_confidence
      Emitted(s) == \E t \in 1..Len(tasks) : tasks[t].raw = s
  IN  /\ TaskRaws = SelectSeq(ScoredSentences, Qualifies)
      /\ \A t \in 1..Len(tasks) : tasks[t].confidence >= min_confidence
      /\ \A k \in 1..Len(scored) :
           /\ sentences[k] = Strip(SentenceOwnerDueVerb) =>
                /\ scored[k] >= DefaultMinConfidence
                /\ min_confidence = DefaultMinConfidence => Emitted(sentences[k])
           /\ sentences[k] = Strip(SentenceOwnerOnly) =>
                /\ scored[k] = DefaultMinConfidence
                /\ min_confidence = DefaultMinConfidence => Emitted(sentences[k])
           /\ sentences[k] = Strip(SentenceNoSignal) =>
                /\ scored[k] = 0
                /\ min_confidence = DefaultMinConfidence => ~Emitted(sentences[k])

\* at the default threshold the owner-only sentence (score exactly 0.4) was
\* emitted after another task, and a sentence was passed over
C8_Witness ==
  /\ pcExtract = "done"
  /\ min_confidence = DefaultMinConfidence
  /\ Len(tasks) = 2
  /\ tasks[2].raw = Strip(SentenceOwnerOnly)
  /\ tasks[2].confidence = DefaultMinConfidence
  /\ Len(scored) = 3

\* C9: extract_tasks_structured returns at most max_tasks tasks, for every
\* max_tasks >= 0 including 0.
C9_AtMostMaxTasks == pcExtract = "done" => Len(tasks) <= max_tasks

\* the indicator of a signal, as a number
Ind(b) == IF b THEN 1 ELSE 0

ClaimSameKey(a, b) ==
  CASE a.t = "dict" /\ b.t = "dict" -> Range(a.v) = Range(b.v)
    [] a.t = "str" /\ b.t = "str" -> LowerSeq(Strip(a.v)) = LowerSeq(Strip(b.v))
    [] a.t = "dict" /\ b.t = "str" -> json_dumps_sorted(a) = LowerSeq(Strip(b.v))
    [] OTHER -> json_dumps_sorted(b) = LowerSeq(Strip(a.v))

\* the items that no earlier item shares a key with, in their order
FirstPerKey(its) ==
  LET keptIdx == {i \in 1..Len(its) :
                    \A j \in 1..(i - 1) : ~ClaimSameKey(its[j], its[i])}
      nth(r) == CHOOSE i \in keptIdx : Cardinality({j \in keptIdx : j < i}) = r - 1
  IN  [r \in 1..Cardinality(keptIdx) |-> its[nth(r)]]

\* C6: dedup_list keeps, for each canonical key, only the first item that
\* carries it, in the relative order of the input, and applying it to its
\* own result changes nothing.
C6_DedupFirstPerKey ==
  /\ pcDedup \in {"once", "done"} => deduped = FirstPerKey(items)
  /\ pcDedup = "done" => dedupedTwice = deduped

\* a dict was dropped as the duplicate of an earlier dict with the same
\* fields in another order, a string as the duplicate of an earlier string
\* in another case, and the second application has run
C6_Witness ==
  /\ pcDedup = "done"
  /\ Len(deduped) < Len(items)
  /\ \E i, j \in 1..Len(items) :
       /\ i < j /\ items[i] # items[j]
       /\ \/ items[i].t = "dict" /\ items[j].t = "dict"
          \/ items[i].t = "str" /\ items[j].t = "str"
       /\ ClaimSameKey(items[i], items[j])
       /\ \E k \in 1..Len(deduped) : deduped[k] = items[i]
       /\ \A k \in 1..Len(deduped) : deduped[k] # items[j]

(***************************************************************************)
(* Claims about extract_last_json                                          *)
(***************************************************************************)

\* the opening braces less the closing braces among the first k characters
ClaimBraceSum(txt, k) ==
  Cardinality({m \in 1..k : txt[m] = "{"})
    - Cardinality({m \in 1..k : txt[m] = "}"})

\* the nesting depth after character i, where a closing brace that closes
\* nothing is prose: the brace sum above its least value so far
ClaimDepth(txt, i) ==
  LET sums == [k \in 0..i |-> ClaimBraceSum(txt, k)]
  IN  sums[i] - MinOf({sums[k] : k \in 0..i})

\* txt[i..j] is a balanced {...} block at the top level
ClaimTopLevelBlock(txt, i, j) ==
  /\ i < j /\ txt[i] = "{" /\ txt[j] = "}"
  /\ ClaimDepth(txt, i - 1) = 0
  /\ ClaimDepth(txt, j) = 0
  /\ \A k \in i..(j - 1) : ClaimDepth(txt, k) > 0

ClaimBlocks(txt) ==
  {b \in (1..Len(txt)) \X (1..Len(txt)) : ClaimTopLevelBlock(txt, b[1], b[2])}

\* the last of the balanced top-level blocks
ClaimLastBlock(txt) ==
  LET b == CHOOSE c \in ClaimBlocks(txt) : \A e \in ClaimBlocks(txt) : e[1] <= c[1]
  IN  SubSeq(txt, b[1], b[2])

\* C3: for every text that contains one or more balanced top-level {...}
\* blocks, whatever prose surrounds them, extract_last_json returns the last
\* such block (after its quote and trailing-comma repair).
C3_LastBlockReturned ==
  (pcJson = "done" /\ ClaimBlocks(mistral_output) # {})
    => json_str = Some(Repair(ClaimLastBlock(mistral_output)))

\* the indexes of the single and of the double quotes of a text
ClaimSingleQuotes(s) == {i \in DOMAIN s : s[i] = "'"}
ClaimDoubleQuotes(s) == {i \in DOMAIN s : s[i] = "\""}

\* the text with its single quotes made double when they are the majority
ClaimQuoted(s) ==
  IF Cardinality(ClaimSingleQuotes(s)) > Cardinality(ClaimDoubleQuotes(s))
  THEN [i \in DOMAIN s |-> IF i \in ClaimSingleQuotes(s) THEN "\"" ELSE s[i]]
  ELSE s

\* the comma at i is followed, whitespace aside, by a closing } or ]
ClaimTrailingComma(s, i) ==
  /\ s[i] = ","
  /\ \E j \in (i + 1)..Len(s) :
       /\ s[j] \in {"}", "]"}
       /\ \A k \in (i + 1)..(j - 1) : s[k] \in {" ", "\t", "\r", "\n"}

\* r is the candidate s with its quotes repaired and then its trailing
\* commas left out, every other character kept in place
ClaimIsRepairOf(r, s) ==
  LET q == ClaimQuoted(s)
      kept == {i \in DOMAIN q : ~ClaimTrailingComma(q, i)}
  IN  /\ Len(r) = Cardinality(kept)
      /\ \A i \in kept : r[Cardinality({k \in kept : k <= i})] = q[i]

\* C13: the text returned for a recovered candidate is the candidate with
\* all single quotes replaced by double quotes if and only if the single
\* quotes outnumber the double quotes, and with every comma that precedes a
\* closing } or ] removed.
C13_RepairOfCandidate ==
  (pcJson = "done" /\ Candidate(mistral_output) # None) =>
    /\ json_str # None
    /\ ClaimIsRepairOf(json_str[1], Candidate(mistral_output)[1])

\* {'summary': ['x',]} was repaired to {"summary": ["x"]}
C13_Witness ==
  /\ pcJson = "done"
  /\ mistral_output = SampleSingleQuoted
  /\ json_str = Some(<<"{", "\"", "s", "u", "m", "m", "a", "r", "y", "\"",
                  ":", " ", "[", "\"", "x", "\"", "]", "}">>)

(***************************************************************************)
(* Claims about summarize_with_mistral                                     *)
(***************************************************************************)

\* C4: for a transcript of at least 10 words whose generated output contains
\* a parsable JSON object, summarize_with_mistral returns (does not raise)
\* and the returned summary_text, action_items and decisions are the
\* placeholder-filtered, deduplicated items of the recovered object, in
\* order of first appearance.
C4_ReturnsFilteredItems ==
  ( /\ pcMistral \in {"returned", "raised"}
    /\ \E c \in DOMAIN transcript_chunks :
         WordCount(transcript_chunks[c].v) >= MinWords
    /\ chunkLocals.parsed_ok )
  => /\ pcMistral = "returned"
     /\ mistralReturn # None
     /\ mistralReturn[1].summary_text
          = List(dedup_list(chunkLocals.filtered_summaries))
     /\ mistralReturn[1].action_items
          = List(dedup_list(chunkLocals.filtered_action_items))

(***************************************************************************)
(* Claims about the summarization fallback and the tools' execute          *)
(***************************************************************************)

\* the attempt raised
AttemptFailed(a) == a.kind # "returned"

\* summarize_protocol has been entered with a list of texts
InProtocol ==
  tool = "summarization" /\ failure = <<>>
  /\ pcTool \in {"first", "second", "result", "done"}

\* the first 300 characters of the joined transcript
ClaimExcerpt == SubSeq(full_transcript, 1, Min(300, Len(full_transcript)))

\* C1: with mode "mistral", Mistral is attempted first and BART only after
\* Mistral has failed (missing path, no GPU, inference error); the call
\* returns an outcome with status success whose summary is non-empty, for
\* every list of texts including the empty one; when BART fails too the
\* summary is the excerpt of the joined transcript followed by an ellipsis
\* or by the note of the two errors.
C1_MistralFallbackNonEmpty ==
  (InProtocol /\ mode = ModeMistral) =>
    /\ \A i \in DOMAIN attempts :
         attempts[i].backend = IF i = 1 THEN "mistral" ELSE "bart"
    /\ Len(attempts) = 2 => AttemptFailed(attempts[1])
    /\ pcTool = "done" =>
         /\ outcome.status = "success"
         /\ result.summary.v # <<>>
         /\ Len(attempts) = IF AttemptFailed(attempts[1]) THEN 2 ELSE 1
         /\ (Len(attempts) = 2 /\ AttemptFailed(attempts[2])) =>
              /\ SubSeq(result.summary.v, 1, Len(ClaimExcerpt)) = ClaimExcerpt
              /\ Len(result.summary.v) > Len(ClaimExcerpt)
              /\ Len(full_transcript) > 300 =>
                   result.summary.v = ClaimExcerpt \o <<".", ".", ".">>

\* mode "mistral" on the empty list: the Mistral path was missing, BART
\* failed too, and a summary was returned
C1_Witness ==
  /\ pcTool = "done" /\ tool = "summarization" /\ mode = ModeMistral
  /\ params.processed_transcripts = Some(<<>>)
  /\ Len(attempts) = 2
  /\ attempts[1].kind = "path_missing" /\ attempts[2].kind = "bart_path_missing"
  /\ outcome.status = "success" /\ result.summary.v # <<>>

\* the action is one CalendarTool.execute serves
ClaimKnownAction ==
  params.action = None
  \/ params.action[1] \in {"create", "availability", "fetch", "list"}

\* C2 as stated: execute returns an outcome; every failure of a wrapped call
\* is returned as status "error" with a message, and the call otherwise
\* returns status "success".
C2_ErrorIffWrappedFailure ==
  pcTool = "done" =>
    /\ outcome.status \in {"success", "error"}
    /\ failure # <<>> => (outcome.status = "error" /\ outcome.message # None)
    /\ failure = <<>> => outcome.status = "success"

\* C2, amended: execute returns an outcome; every failure of a wrapped call
\* is returned as status "error" with a message; the call otherwise returns
\* status "success", except that the calendar tool returns status "error"
\* with the message "Unknown action: <action>" for an action other than
\* create, availability, fetch and list.
C2_ErrorIffFailureOrUnknownAction ==
  pcTool = "done" =>
    /\ outcome.status \in {"success", "error"}
    /\ failure # <<>> => (outcome.status = "error" /\ outcome.message # None)
    /\ failure = <<>> =>
         IF tool = "calendar" /\ ~ClaimKnownAction
         THEN /\ outcome.status = "error"
              /\ outcome.message = Some(<<"Unknown action: ", params.action[1]>>)
         ELSE outcome.status = "success"

\* the risk tool caught the failure of its second wrapped call, and the
\* calendar tool is among the tools called
C2_Witness ==
  /\ pcTool = "done" /\ tool = "risk"
  /\ failure = <<"detect_jira_risks">>
  /\ outcome.status = "error" /\ outcome.message # None

\* the mode selects neither "bart" nor "mistral"
ClaimAutoMode == mode \notin {ModeBart, ModeMistral}

\* both attempts of the auto mode raised
ClaimBothFailed ==
  Len(attempts) = 2 /\ AttemptFailed(attempts[1]) /\ AttemptFailed(attempts[2])

\* the order of the attempts in the auto mode: BART first, Mistral only
\* after BART has failed
ClaimAutoOrder ==
  /\ \A i \in DOMAIN attempts :
       attempts[i].backend = IF i = 1 THEN "bart" ELSE "mistral"
  /\ Len(attempts) = 2 => AttemptFailed(attempts[1])
  /\ (pcTool = "done" /\ AttemptFailed(attempts[1])) => Len(attempts) = 2

\* C5 as stated: in the auto mode the primary backend is attempted first and
\* the secondary only after the primary has failed; if both fail the
\* returned summary is the first 300 characters of the joined transcript
\* and action_items is the empty list.
C5_AutoExcerpt ==
  (InProtocol /\ ClaimAutoMode) =>
    /\ ClaimAutoOrder
    /\ (pcTool = "done" /\ ClaimBothFailed) =>
         /\ result.summary.v = ClaimExcerpt
         /\ result.action_items = List(<<>>)

\* C5, amended: in the auto mode BART is attempted first and Mistral only
\* after BART has failed; if both fail, action_items is the empty list and
\* the returned summary is the first 300 characters of the joined
\* transcript, verbatim, or "No summary generated." when the joined
\* transcript is empty.
C5_AutoExcerptOrPlaceholder ==
  (InProtocol /\ ClaimAutoMode) =>
    /\ ClaimAutoOrder
    /\ (pcTool = "done" /\ ClaimBothFailed) =>
         /\ result.summary.v = IF full_transcript = <<>>
                               THEN NoSummaryText ELSE ClaimExcerpt
         /\ result.action_items = List(<<>>)

\* the auto mode on a transcript longer than 300 characters: BART failed,
\* then Mistral failed, and the summary is the 300-character excerpt
C5_Witness ==
  /\ pcTool = "done" /\ tool = "summarization" /\ mode = ModeAuto
  /\ ClaimBothFailed
  /\ attempts[1].backend = "bart" /\ attempts[2].backend = "mistral"
  /\ Len(full_transcript) > 300
  /\ Len(result.summary.v) = 300

(***************************************************************************)
(* Claims about the placeholder filters                                    *)
(***************************************************************************)

\* the item is a mapping
ClaimStructured(item) == item.t = "dict"

\* the values of the fields of a structured item
ClaimFieldValues(item) == {item.v[i].val : i \in DOMAIN item.v}

\* the value is the empty text or a text beginning with "<"
ClaimEmptyOrBracket(val) ==
  val.t = "str" /\ (val.v = <<>> \/ val.v[1] = "<")

\* the value is a text that, leading whitespace aside, is empty or begins
\* with "<"
ClaimBlankOrBracket(val) ==
  /\ val.t = "str"
  /\ \/ \A i \in DOMAIN val.v : val.v[i] \in SpaceSet
     \/ \E j \in DOMAIN val.v :
          val.v[j] = "<" /\ \A k \in 1..(j - 1) : val.v[k] \in SpaceSet

\* the value counts as true: a non-empty text, list or mapping, or True
ClaimTruthy(val) ==
  IF val.t = "lit" THEN val.v = <<"t", "r", "u", "e">> ELSE Len(val.v) > 0

\* the structured items of the action_items field, in order
ClaimStructuredInput ==
  SelectSeq(AsList(parsedFields.action_items), ClaimStructured)

\* the structured items the filter kept, in order
ClaimStructuredKept ==
  SelectSeq(filteredLists.filtered_action_items, ClaimStructured)

ClaimKeepsStructured(item) ==
  /\ \A val \in ClaimFieldValues(item) : ~ClaimBlankOrBracket(val)
  /\ \E val \in ClaimFieldValues(item) : ClaimTruthy(val)

ClaimPlaceholderTokens ==
  { <<"p", "o", "i", "n", "t", " ", "1">>, <<"p", "o", "i", "n", "t", " ", "2">>,
    <<"-">>,
    <<"<", "s", "u", "m", "m", "a", "r", "y", " ", "b", "u", "l", "l",
    "e", "t", " ", "1", ">">> }

\* the text from its first to its last character that is no whitespace
ClaimTrimmed(s) ==
  LET inside == {i \in DOMAIN s : s[i] \notin SpaceSet}
  IN  IF inside = {} THEN <<>>
      ELSE SubSeq(s, CHOOSE i \in inside : \A j \in inside : i <= j,
                     CHOOSE i \in inside : \A j \in inside : i >= j)

\* the item is a non-empty text that, trimmed and in lower case, is no
\* placeholder token, starts with neither "point " nor "<summary" and does
\* not contain both "<" and ">"
ClaimAccepts(item) ==
  /\ item.t = "str" /\ item.v # <<>>
  /\ LET s == LowerSeq(ClaimTrimmed(item.v))
     IN  /\ s \notin ClaimPlaceholderTokens
         /\ ~StartsWith(s, <<"p", "o", "i", "n", "t", " ">>)
         /\ ~StartsWith(s, <<"<", "s", "u", "m", "m", "a", "r", "y">>)
         /\ ~("<" \in Range(s) /\ ">" \in Range(s))

\* C12: once the filtering lines have run, the filtered summary bullets,
\* decisions, risks and follow-up questions are exactly the items of their
\* fields that are non-empty texts, are no placeholder token ("point 1",
\* "point 2", "-", "<summary bullet 1>"), start with neither "point " nor
\* "<summary" and do not contain both "<" and ">".
C12_AcceptsIffNoPlaceholder ==
  pcFilter = "raised" =>
    /\ filteredLists.filtered_summaries =
         SelectSeq(AsList(parsedFields.summary_text), ClaimAccepts)
    /\ filteredLists.filtered_decisions =
         SelectSeq(AsList(parsedFields.decisions), ClaimAccepts)
    /\ filteredLists.filtered_risks =
         Some(SelectSeq(AsList(parsedFields.risks), ClaimAccepts))
    /\ filteredLists.filtered_follow_ups =
         Some(SelectSeq(AsList(parsedFields.follow_up_questions), ClaimAccepts))

\* the fields the interface of the summarization capability names
ClaimResultFields ==
  {"summary", "action_items", "decisions", "risks", "follow_up_questions", "mode"}

\* C14: every result the summarization tool returns, in every mode and on
\* every fallback path, carries the fields summary, action_items, decisions,
\* risks, follow_up_questions and mode.
C14_ResultCarriesAllFields ==
  (tool = "summarization" /\ pcTool = "done" /\ outcome.status = "success") =>
    ClaimResultFields \subseteq DOMAIN result

(***************************************************************************)
(* Claims about the model loaders                                          *)
(***************************************************************************)

\* C15: when several worker threads are the first callers of get_bart_model
\* (or get_mistral_model), the tokenizer and the model are each loaded at
\* most once.
C15_LoadsAtMostOnce == tokenizerLoads <= 1 /\ modelLoads <= 1

(***************************************************************************)
(* Claims about the API key check                                          *)
(***************************************************************************)

\* the bypass of the check is on
ClaimBypass == envDisableCheck = Some(<<"1">>)

\* the request has passed, or failed, the check
ClaimAdmitted == pcApi \in {"endpoint", "session"} \/ apiStatus = 200
ClaimRejected == apiStatus = 401

\* a rejected request is answered before a session is created or a tool is
\* dispatched, and an admitted one dispatches the tool of its endpoint
ClaimRejectedBeforeDispatch ==
  /\ pcApi # "verify" => (ClaimAdmitted # ClaimRejected)
  /\ ClaimRejected =>
       (pcApi = "responded" /\ sessionsCreated = 0 /\ dispatched = <<>>)
  /\ pcApi = "responded" =>
       (ClaimAdmitted <=> dispatched = <<ToolOfEndpoint(endpoint)>>)

ClaimWorkingClient == ~Unusable(jiraEnv) /\ jiraEnv.connects

\* every action item is a dict, as the parameter of create_jira_issues is
\* declared
ClaimItemsAreDicts == \A i \in DOMAIN jiraItems : jiraItems[i].t = "dict"

\* create_jira_issues has been entered
ClaimEntered == pcJira \notin {"idle", "handle", "creds"}

\* the title an entry is expected to carry: the summary, else the title,
\* else the text of the item
ClaimTitle(item) ==
  IF Truthy(GetOrNone(item, KeySummary)) THEN GetOrNone(item, KeySummary)
  ELSE IF Truthy(GetOrNone(item, KeyTitle)) THEN GetOrNone(item, KeyTitle)
  ELSE Str(PyRepr(item))

\* the i-th entry is the entry of the i-th item
ClaimEntryOf(entries, i) ==
  /\ entries[i].title = ClaimTitle(jiraItems[i])
  /\ entries[i].owner = GetOrNone(jiraItems[i], KeyOwner)
  /\ entries[i].due = GetOrNone(jiraItems[i], KeyDue)

\* the create_issue calls made so far, without the connection
ClaimCreateCalls == SelectSeq(jiraCalls, LAMBDA c : c.op = "create_issue")

\* C17: with a working Jira client create_jira_issues attempts every action
\* item in input order; an error of create_issue is captured in the entry of
\* that item (status "error" with a reason) and the later items are still
\* attempted; created_tasks has exactly one entry per input action item, in
\* input order, and the call returns status "success".
C17_EveryItemAttemptedInOrder ==
  (ClaimWorkingClient /\ ClaimItemsAreDicts /\ ClaimEntered
     /\ pcJira # "connect") =>
    /\ Len(created) = Len(ClaimCreateCalls)
    /\ Len(created) <= Len(jiraItems)
    /\ \A i \in DOMAIN created :
         /\ ClaimEntryOf(created, i)
         /\ ClaimCreateCalls[i].summary = OneLine(ClaimTitle(jiraItems[i]).v)
         /\ created[i].status \in {"created", "error"}
         /\ created[i].status = "error" =>
              created[i].reason # None /\ created[i].jira_issue_key = NullValue
         /\ created[i].status = "created" =>
              created[i].reason = None /\ created[i].jira_issue_key # NullValue
    /\ (pcJira = "loop" /\ jiraIdx <= Len(jiraItems)) =>
         Len(created) = jiraIdx - 1
    /\ jiraReturn # None =>
         /\ jiraReturn[1].status = "success"
         /\ jiraReturn[1].created_tasks = created
         /\ Len(created) = Len(jiraItems)

\* a batch of two whose first issue failed and whose second was created
C17_Witness ==
  /\ ClaimWorkingClient /\ jiraReturn # None
  /\ jiraItems = <<JiraItemFix, JiraItemPlan>>
  /\ created[1].status = "error" /\ created[2].status = "created"
  /\ created[2].jira_issue_key = Str(IssueKey(1))

\* the package or a credential is missing
ClaimUnusable == Unusable(jiraEnv)

\* C18: when the jira package or one of the URL, user and token is missing,
\* create_jira_issues makes no external call, does not raise and returns
\* status "skipped" with one entry per action item, each with status
\* "skipped", a reason and a null issue key; and the outcome JiraTool.execute
\* gives for this case is labelled skipped, not success.
C18_SkippedOutcomeIsLabelledSkipped ==
  (ClaimUnusable /\ ClaimItemsAreDicts /\ pcJira = "done") =>
    /\ jiraCalls = <<>>
    /\ jiraReturn # None
    /\ jiraReturn[1].status = "skipped"
    /\ Len(jiraReturn[1].created_tasks) = Len(jiraItems)
    /\ \A i \in DOMAIN jiraReturn[1].created_tasks :
         LET e == jiraReturn[1].created_tasks[i]
         IN  /\ ClaimEntryOf(jiraReturn[1].created_tasks, i)
             /\ e.status = "skipped" /\ e.reason # None
             /\ e.jira_issue_key = NullValue
    /\ jiraOutcome.status = "skipped"

\* the part of C18 about create_jira_issues alone
C18_SkippedByCreateJiraIssues ==
  (ClaimUnusable /\ ClaimItemsAreDicts /\ pcJira = "done") =>
    /\ jiraCalls = <<>>
    /\ jiraReturn # None
    /\ jiraReturn[1].status = "skipped"
    /\ Len(jiraReturn[1].created_tasks) = Len(jiraItems)
    /\ \A i \in DOMAIN jiraReturn[1].created_tasks :
         LET e == jiraReturn[1].created_tasks[i]
         IN  /\ ClaimEntryOf(jiraReturn[1].created_tasks, i)
             /\ e.status = "skipped" /\ e.reason # None
             /\ e.jira_issue_key = NullValue

(***************************************************************************)
(* Claims about tools/risk_tool.py and agents/risk_detection_agent.py.     *)
(***************************************************************************)

ClaimSeverities ==
  { <<"h", "i", "g", "h">>, <<"m", "e", "d", "i", "u", "m">>, <<"l", "o", "w">> }

ClaimSources ==
  { <<"s", "u", "m", "m", "a", "r", "y">>, <<"t", "a", "s", "k", "s">>,
    <<"a", "n", "a", "l", "y", "s", "i", "s">>, <<"j", "i", "r", "a">> }

\* the record has the five fields of a risk
ClaimIsRisk(r) ==
  /\ r.t = "dict"
  /\ HasKey(r, KeyId) /\ GetOrNone(r, KeyId).t = "str"
  /\ GetOrNone(r, KeyId).v # <<>>
  /\ HasKey(r, KeyMeetingId)
  /\ HasKey(r, KeyDescription)
  /\ HasKey(r, KeySeverity) /\ GetOrNone(r, KeySeverity).v \in ClaimSeverities
  /\ HasKey(r, KeySource) /\ GetOrNone(r, KeySource).v \in ClaimSources

\* C19: every record in the risks list the risk tool returns, derived from
\* the summary, the tasks, the no-risk analysis placeholder or Jira, carries
\* a generated id, the meeting_id, a description, a severity among high,
\* medium and low, and a source among summary, tasks, analysis and jira.
C19_EveryRiskHasAllFields ==
  \A i \in DOMAIN riskOutcome.risks : ClaimIsRisk(riskOutcome.risks[i])

\* the part of C19 that holds: the records of detect have the five fields,
\* with the meeting_id of the call and ids that differ from one another
C19_DetectedRisksHaveAllFields ==
  /\ \A i \in DOMAIN riskOutcome.summary_risks :
       /\ ClaimIsRisk(riskOutcome.summary_risks[i])
       /\ GetOrNone(riskOutcome.summary_risks[i], KeyMeetingId) =
            (IF riskParams.meeting_id = None THEN Str(DefaultMeetingId)
             ELSE riskParams.meeting_id[1])
       /\ \A j \in DOMAIN riskOutcome.summary_risks :
            i # j => GetOrNone(riskOutcome.summary_risks[i], KeyId) #
                       GetOrNone(riskOutcome.summary_risks[j], KeyId)
  /\ pcRisk = "done" => riskOutcome.summary_risks # <<>>

\* the records of detect_jira_risks have a source and a description, and
\* neither an id nor a meeting_id nor a severity
C19_JiraRisksLackFields ==
  \A i \in DOMAIN riskOutcome.jira_risks :
    LET r == riskOutcome.jira_risks[i]
    IN  /\ GetOrNone(r, KeySource) = Str(<<"j", "i", "r", "a">>)
        /\ HasKey(r, KeyDescription)
        /\ ~HasKey(r, KeyId) /\ ~HasKey(r, KeyMeetingId)
        /\ ~HasKey(r, KeySeverity)

(***************************************************************************)
(* Claims about the consumers of messages: agents/notification_agent.py    *)
(* and agents/jira_agent.py.                                               *)
(***************************************************************************)

\* the places of the parts whose kind is among kinds
ClaimPlaces(parts, kinds) == {i \in DOMAIN parts : parts[i].kind \in kinds}

\* the content of the first part whose kind is among kinds, else the
\* default
ClaimFirstOf(parts, kinds, default) ==
  LET hits == ClaimPlaces(parts, kinds)
  IN  IF hits = {} THEN default
      ELSE parts[CHOOSE i \in hits : \A j \in hits : i <= j].content

\* the content of the last part whose kind is among kinds, else the default
ClaimLastOf(parts, kinds, default) ==
  LET hits == ClaimPlaces(parts, kinds)
  IN  IF hits = {} THEN default
      ELSE parts[CHOOSE i \in hits : \A j \in hits : i >= j].content

\* the contents of all parts whose kind is among kinds, in insertion order
ClaimAllOf(parts, kinds) ==
  LET kept == SelectSeq(parts, LAMBDA p : p.kind \in kinds)
  IN  [i \in DOMAIN kept |-> kept[i].content]

\* the multi-valued kinds are aggregated in insertion order
ClaimAggregates ==
  /\ notifyArgs.tasks = ClaimAllOf(notifyParts, {"task", "action_item"})
  /\ notifyArgs.risks = ClaimAllOf(notifyParts, {"risk"})

\* the notification handler has read its message
ClaimNotifyRead == pcNotify \in {"notify", "done"}

\* the Jira handler has read its message
ClaimJiraRead == pcJira \notin {"idle", "handle"}

\* the action items of the first JSON part that is a dict: the list under
\* action_items, items or tasks, and no item when it has no such list
ClaimItemsOfFirstJson(parts) ==
  LET content == ClaimFirstOf(SelectSeq(parts, LAMBDA p : p.content.t = "dict"),
                              {"json"}, NullValue)
      found == IF content = NullValue THEN NullValue ELSE ContentItems(content)
  IN  IF found.t = "list" THEN found.v ELSE <<>>

\* the message has a JSON part that is a dict
ClaimHasJson(parts) ==
  \E i \in DOMAIN parts : parts[i].kind = "json" /\ parts[i].content.t = "dict"

\* the items aggregated from the JSON and text parts alone
ClaimAggregatedItems(parts) ==
  Collected(SelectSeq(parts, LAMBDA p : p.kind \in {"json", "text"}))

\* C20: consumers of a message follow the dual pattern: for a single-valued
\* kind the first part of the kind is selected (the notification handler
\* uses the first meeting_id part and the first summary part, the Jira
\* handler the first JSON part), for the multi-valued kinds task,
\* action_item and risk all parts of the kind are aggregated in insertion
\* order, and parts of unknown kind are skipped without failure.
C20_FirstPartOrAggregate ==
  /\ ClaimNotifyRead =>
       /\ notifyArgs.meeting_id =
            ClaimFirstOf(notifyParts, {"meeting_id"}, Str(UnknownMeeting))
       /\ notifyArgs.summary = ClaimFirstOf(notifyParts, {"summary"}, Str(<<>>))
       /\ ClaimAggregates
  /\ ClaimJiraRead =>
       jiraItems = (IF ClaimHasJson(jiraParts)
                    THEN ClaimItemsOfFirstJson(jiraParts)
                    ELSE ClaimAggregatedItems(jiraParts))

\* what the notification handler does: the last meeting_id part and the
\* last summary part are used, the multi-valued kinds are aggregated in
\* insertion order, and a message with parts of unknown kind is answered
C20_NotificationUsesLastPart ==
  /\ ClaimNotifyRead =>
       /\ notifyArgs.meeting_id =
            ClaimLastOf(notifyParts, {"meeting_id"}, Str(UnknownMeeting))
       /\ notifyArgs.summary = ClaimLastOf(notifyParts, {"summary"}, Str(<<>>))
       /\ ClaimAggregates
  /\ pcNotify = "done" => Len(notifyResponse) = 1

\* what the Jira handler does: the items of the first JSON part that is a
\* dict when it has some, else one item for every part whose content is a
\* dict or a text, whatever the kind of the part
C20_JiraFallsBackToEveryPart ==
  ClaimJiraRead =>
    jiraItems = (IF ClaimItemsOfFirstJson(jiraParts) # <<>>
                 THEN ClaimItemsOfFirstJson(jiraParts)
                 ELSE Collected(jiraParts))

(***************************************************************************)
(* Claims about an empty batch given to tools/jira_tool.py.                *)
(***************************************************************************)

\* JiraTool.execute was called with an empty or absent action_items list
ClaimEmptyBatch == jiraParts = ToolMessage(<<>>)

\* C24: executing the jira tool with an empty or absent action_items list
\* is accepted as a valid empty batch: no Jira issue is created or reported
\* and the returned created_tasks sequence is empty.
C24_EmptyBatchCreatesNothing ==
  (ClaimEmptyBatch /\ pcJira = "done") =>
    /\ \A i \in DOMAIN jiraCalls : jiraCalls[i].op # "create_issue"
    /\ jiraOutcome.results # None
    /\ jiraOutcome.results[1].created_tasks = <<>>

\* what the tool does with an empty batch: the handler makes one action
\* item out of the content of its own JSON part, and one entry is reported
\* for it
C24_EmptyBatchReportsOneEntry ==
  (ClaimEmptyBatch /\ pcJira = "done") =>
    /\ jiraItems = <<ToolMessage(<<>>)[1].content>>
    /\ jiraOutcome.results # None
    /\ Len(jiraOutcome.results[1].created_tasks) = 1
    /\ (ClaimWorkingClient =>
          /\ Len(jiraCalls) = 2
          /\ jiraCalls[2].op = "create_issue")

(***************************************************************************)
(* Claims about the Jira risks of tools/risk_tool.py.                      *)
(***************************************************************************)

\* detect_jira_risks was asked for its risks
ClaimQueried == jiraQuery > 0

\* include_jira is explicitly true, or absent
ClaimNotSwitchedOff == riskParams.include_jira \in {None, Some(TRUE)}

\* C26: RiskTool.execute queries the Jira risks if and only if a Jira
\* client is configured and include_jira is explicitly true or absent; an
\* explicit false gives empty jira_risks even with a client, true without a
\* client gives empty jira_risks without error, and the returned risks are
\* always summary_risks followed by jira_risks.
C26_JiraRisksIffClientAndNotSwitchedOff ==
  /\ pcRisk \in {"jira", "merge", "done"} =>
       (ClaimQueried <=> (riskClient /\ ClaimNotSwitchedOff))
  /\ ~ClaimQueried => jira_risks = <<>>
  /\ pcRisk = "done" =>
       /\ riskOutcome.status = "success"
       /\ riskOutcome.risks = riskOutcome.summary_risks \o riskOutcome.jira_risks
       /\ riskOutcome.summary_risks = summary_risks
       /\ riskOutcome.jira_risks = jira_risks
       /\ (riskParams.include_jira = Some(FALSE) \/ ~riskClient) =>
            riskOutcome.jira_risks = <<>>

\* with a client and no include_jira the Jira risks were queried and follow
\* the risks of the summary
C26_Witness ==
  /\ pcRisk = "done" /\ riskClient /\ riskParams.include_jira = None
  /\ Len(riskOutcome.jira_risks) >= 2
  /\ Len(riskOutcome.risks) = Len(riskOutcome.summary_risks) + Len(riskOutcome.jira_risks)

(***************************************************************************)
(* Claims about RiskDetectionAgent.detect.                                 *)
(***************************************************************************)

\* the blockers of the call: the non-empty list under "blockers" of a
\* summary that is a dict
ClaimBlockers ==
  LET s == riskParams.summary
  IN  IF s.t = "dict" /\ \E i \in DOMAIN s.v : s.v[i].k = KeyBlockers
      THEN (CHOOSE p \in Range(s.v) : p.k = KeyBlockers).val.v
      ELSE <<>>

\* the summary text of the call has one of the risk terms, in any case
ClaimHasRiskTerm ==
  \E term \in risk_terms : Contains(LowerSeq(SummaryTextOf(riskParams.summary)), term)

ClaimManyTasks == riskParams.tasks > 5

ClaimField(r, key) == GetOrNone(r, key).v

ClaimIsPlaceholder(r) ==
  /\ ClaimField(r, KeyDescription) = NoRiskDescription
  /\ ClaimField(r, KeySeverity) = <<"l", "o", "w">>
  /\ ClaimField(r, KeySource) = <<"a", "n", "a", "l", "y", "s", "i", "s">>

ClaimIsMedium(r, source) ==
  /\ ClaimField(r, KeySeverity) = <<"m", "e", "d", "i", "u", "m">>
  /\ ClaimField(r, KeySource) = source

\* C29: detect always returns at least one risk: the low-severity
\* placeholder "No immediate risks detected." of source analysis is
\* returned if and only if no blocker, no risk keyword in the summary text
\* and no more than 5 tasks were found, and it is then the only element;
\* otherwise there is one high-severity risk per blocker, at most one medium
\* keyword risk and at most one medium task-count risk, in that order.
C29_PlaceholderIffNothingFound ==
  pcRisk # "detect" =>
    LET nb == Len(ClaimBlockers)
        kw == IF ClaimHasRiskTerm THEN 1 ELSE 0
        tk == IF ClaimManyTasks THEN 1 ELSE 0
        nothing == nb = 0 /\ kw = 0 /\ tk = 0
    IN  /\ Len(summary_risks) >= 1
        /\ (\E i \in DOMAIN summary_risks : ClaimIsPlaceholder(summary_risks[i]))
             <=> nothing
        /\ nothing => Len(summary_risks) = 1
        /\ ~nothing =>
             /\ Len(summary_risks) = nb + kw + tk
             /\ \A i \in 1..nb :
                  /\ ClaimField(summary_risks[i], KeySeverity) = <<"h", "i", "g", "h">>
                  /\ ClaimField(summary_risks[i], KeySource) =
                       <<"s", "u", "m", "m", "a", "r", "y">>
                  /\ ClaimField(summary_risks[i], KeyDescription) =
                       PyStr(ClaimBlockers[i])
             /\ kw = 1 =>
                  /\ ClaimIsMedium(summary_risks[nb + 1],
                                   <<"s", "u", "m", "m", "a", "r", "y">>)
                  /\ ClaimField(summary_risks[nb + 1], KeyDescription) =
                       TermsDescription
             /\ tk = 1 =>
                  /\ ClaimIsMedium(summary_risks[nb + kw + 1],
                                   <<"t", "a", "s", "k", "s">>)
                  /\ ClaimField(summary_risks[nb + kw + 1], KeyDescription) =
                       TasksDescription

\* a call with a blocker, a risk keyword and six tasks: three risks, and
\* a call with nothing to find: the placeholder alone
C29_Witness ==
  /\ pcRisk = "done" /\ Len(ClaimBlockers) = 1 /\ ClaimHasRiskTerm
  /\ ClaimManyTasks /\ Len(summary_risks) = 3

C29_WitnessPlaceholder ==
  /\ pcRisk = "done" /\ riskParams.tasks = 5 /\ Len(summary_risks) = 1
  /\ ClaimIsPlaceholder(summary_risks[1])

(***************************************************************************)
(* Claims about the mode field of a summarization result.                  *)
(***************************************************************************)

\* the mode the call asked for: mode, else summarizer, else none
ClaimRequestedMode ==
  IF params.mode # None /\ params.mode[1] # <<>> THEN params.mode[1]
  ELSE IF params.summarizer # None /\ params.summarizer[1] # <<>>
  THEN params.summarizer[1]
  ELSE <<"a", "u", "t", "o">>

\* summarize_protocol returned a result to the tool
ClaimHasResult == tool = "summarization" /\ pcTool = "done" /\ failure = <<>>

\* the backends that were attempted
ClaimBackends == {attempts[i].backend : i \in DOMAIN attempts}

\* C30: the mode field of a summarization result always equals the
\* requested mode, lowercased, and "auto" when none is given; it never names
\* the backend that produced the summary: a request in mode "mistral"
\* served by the BART fallback or by the verbatim excerpt is still reported
\* with mode "mistral" and tool status "success"; in mode "bart" the Mistral
\* backend is never attempted.
C30_ModeIsTheRequestedMode ==
  /\ ClaimHasResult =>
       /\ result.mode = LowerSeq(ClaimRequestedMode)
       /\ outcome.status = "success"
  /\ (tool = "summarization"
        /\ LowerSeq(ClaimRequestedMode) = <<"b", "a", "r", "t">>) =>
       "mistral" \notin ClaimBackends
  /\ (ClaimHasResult
        /\ LowerSeq(ClaimRequestedMode) = <<"m", "i", "s", "t", "r", "a", "l">>) =>
       /\ attempts # <<>> /\ attempts[1].backend = "mistral"
       /\ Len(attempts) = 2 => attempts[2].backend = "bart"

\* a request in mode "Mistral" whose Mistral attempt failed and whose
\* summary came from BART, reported as mode "mistral" with status success
C30_Witness ==
  /\ ClaimHasResult /\ params.mode = Some(<<"M", "i", "s", "t", "r", "a", "l">>)
  /\ Len(attempts) = 2 /\ AttemptFailed(attempts[1])
  /\ ~AttemptFailed(attempts[2]) /\ attempts[2].backend = "bart"
  /\ result.mode = <<"m", "i", "s", "t", "r", "a", "l">>
  /\ outcome.status = "success"

\* a request in mode "mistral" served by the verbatim excerpt
C30_WitnessExcerpt ==
  /\ ClaimHasResult /\ result.mode = <<"m", "i", "s", "t", "r", "a", "l">>
  /\ Len(attempts) = 2 /\ AttemptFailed(attempts[1]) /\ AttemptFailed(attempts[2])
  /\ outcome.status = "success"

(***************************************************************************)
(* Claims about a failed extraction in summarize_with_mistral.             *)
(***************************************************************************)

\* the places of the braces of a text
ClaimBraces(txt) == {k \in DOMAIN txt : txt[k] \in {"{", "}"}}

\* the opening braces less the closing braces between two places
ClaimNetDepth(txt, a, b) ==
  Cardinality({k \in ClaimBraces(txt) : a <= k /\ k <= b /\ txt[k] = "{"})
  - Cardinality({k \in ClaimBraces(txt) : a <= k /\ k <= b /\ txt[k] = "}"})

\* places i to j hold a complete {...} block: it opens at i, closes at j and
\* is not closed before j
ClaimIsBlock(txt, i, j) ==
  /\ i < j /\ txt[i] = "{" /\ txt[j] = "}"
  /\ ClaimNetDepth(txt, i, j) = 0
  /\ \A k \in ClaimBraces(txt) : (i <= k /\ k < j) => ClaimNetDepth(txt, i, k) >= 1

\* the text has a complete block that is not inside an unclosed brace
ClaimHasTopLevelBlock(txt) ==
  \E i, j \in ClaimBraces(txt) :
    ClaimIsBlock(txt, i, j) /\ ClaimNetDepth(txt, 1, i - 1) <= 0

\* the five parsed fields of the chunk are empty
ClaimFieldsEmpty ==
  /\ chunkLocals.summary_text = List(<<>>)
  /\ chunkLocals.action_items = List(<<>>)
  /\ chunkLocals.decisions = List(<<>>)
  /\ chunkLocals.risks = List(<<>>)
  /\ chunkLocals.follow_up_questions = List(<<>>)

\* a candidate was recovered from the output of the chunk and json.loads
\* failed on it
ClaimParseFailed ==
  pcMistral = "raised" /\ mistralError = "NameError" /\ json_str # None
  /\ ~chunkLocals.parsed_ok

C25_WitnessUnclosed ==
  /\ pcMistral = "raised" /\ mistral_output = OutputProse \o OutputUnclosed
  /\ json_str = None /\ ClaimFieldsEmpty

(***************************************************************************)
(* Claims about the sessions of the HTTP handlers.                         *)
(***************************************************************************)

\* the handler has left: it returned an outcome, or an exception left it
ClaimHandlerDone(h) == pcHandler[h] \in ExecuteEnds

\* the sessions and the tool calls of a handler
ClaimCallsOf(h) ==
  {i \in DOMAIN hostCalls : hostCalls[i].session = handlerSession[h]}

\* C23: each per-capability handler creates exactly one session, issues
\* exactly one tool call in it and ends that session before it returns;
\* after any interleaving of handler calls has completed, no session a
\* handler created is still active, also when the tool call reports or
\* signals an error.
C23_NoSessionOutlivesItsHandler ==
  /\ \A h \in Handlers :
       ClaimHandlerDone(h) =>
         /\ handlerSession[h] # 0
         /\ Cardinality(ClaimCallsOf(h)) = 1
         /\ \A i \in ClaimCallsOf(h) :
              hostCalls[i].tool = ToolOfEndpoint(handlerEndpoint[h])
         /\ handlerSession[h] \notin activeSessions
  /\ (\A h \in Handlers : ClaimHandlerDone(h)) =>
       /\ activeSessions = {}
       /\ sessionCount = MaxHandlers

\* what holds: a handler whose tool call returned an outcome, success or
\* error, has ended its one session; the session of a handler that an
\* exception left stays active
C23_SessionEndedUnlessRaised ==
  /\ \A h \in Handlers :
       ClaimHandlerDone(h) =>
         /\ handlerSession[h] # 0
         /\ Cardinality(ClaimCallsOf(h)) = 1
         /\ (handlerSession[h] \in activeSessions) <=> pcHandler[h] = "raised"
  /\ \A h1, h2 \in Handlers :
       (h1 # h2 /\ handlerSession[h1] # 0) =>
         handlerSession[h1] # handlerSession[h2]

(***************************************************************************)
(* Claims about agents/transcript_preprocessing_agent.py.                  *)
(***************************************************************************)

\* the cleaned words of the k-th transcript given to process
ClaimCleanWords(k) == Split(clean_text(Strip(prepTranscripts[k])))

\* the chunks from index j on are the cleaned words of the transcripts from
\* index k on, transcript by transcript and in order
RECURSIVE ClaimPartitioned(_, _, _)
ClaimPartitioned(chunks, j, k) ==
  IF k > Len(prepTranscripts) THEN j = Len(chunks) + 1
  ELSE \E m \in 0..(Len(chunks) - j + 1) :
         /\ Concat([q \in 1..m |-> Split(chunks[j + q - 1])])
              = ClaimCleanWords(k)
         /\ ClaimPartitioned(chunks, j + m, k + 1)

\* C28: process with chunk_size >= 1 partitions the cleaned words without
\* loss and in order: every chunk returned is non-empty and has at most
\* chunk_size words, no chunk has words of two transcripts, an empty or
\* blank transcript contributes nothing, the chunks in order are the
\* cleaned words of the transcripts in order, and debug.chunks_produced is
\* the number of chunks returned.
C28_ChunksPartitionTheCleanedWords ==
  (prepReturn # None /\ prepChunkSize >= 1) =>
    LET chunks == prepReturn[1].processed
    IN  /\ \A j \in DOMAIN chunks :
             /\ chunks[j] # <<>>
             /\ Len(Split(chunks[j])) \in 1..prepChunkSize
        /\ ClaimPartitioned(chunks, 1, 1)
        /\ \A k \in DOMAIN prepTranscripts :
             Strip(prepTranscripts[k]) = <<>> => ClaimCleanWords(k) = <<>>
        /\ prepReturn[1].debug.chunks_produced = Len(chunks)

\* process has returned for two transcripts with words, the first of them
\* cut into a full chunk and a shorter one
C28_Witness ==
  /\ prepReturn # None
  /\ Len(prepTranscripts) = 2
  /\ prepChunkSize = 2
  /\ Len(ClaimCleanWords(1)) = 3
  /\ Len(ClaimCleanWords(2)) >= 1
  /\ Len(prepReturn[1].processed) >= 3
  /\ Len(Split(prepReturn[1].processed[2])) = 1

\* process has returned for a blank transcript followed by one with words
C28_WitnessBlank ==
  /\ prepReturn # None
  /\ Len(prepTranscripts) = 2
  /\ prepTranscripts[1] # <<>>
  /\ Strip(prepTranscripts[1]) = <<>>
  /\ prepReturn[1].processed # <<>>

(***************************************************************************)
(* Claims about the chat input handler of ui/streamlit_agent_client.py.    *)
(***************************************************************************)

\* the command pipelines, in the order of their rules
ClaimPipelines == <<"summarize", "risk", "jira", "notify", "preprocess">>

\* the command pipelines run so far for the prompt
ClaimPipelinesRun ==
  {chatCalls[i].pipeline : i \in DOMAIN chatCalls} \ {"freeform"}

\* C21: for one prompt the keyword rules are applied in order and the
\* first matching rule wins: at most one command pipeline (summarize,
\* detect risk, create jira, notify, preprocess) is run, also when the
\* prompt has the keywords of several rules.
C21_AtMostOnePipeline ==
  chatFlow = "chat" => Cardinality(ClaimPipelinesRun) <= 1

\* what holds: the rules are applied in order and every rule that matches
\* runs its pipeline, once; the prompt goes to the orchestrator as it is
\* only if no rule matched
C21_EveryMatchingRuleRuns ==
  chatFlow = "chat" =>
    /\ \A i, j \in DOMAIN chatCalls :
         (i < j /\ chatCalls[j].pipeline # "freeform") =>
           \E a, b \in DOMAIN ClaimPipelines :
             /\ a <= b
             /\ ClaimPipelines[a] = chatCalls[i].pipeline
             /\ ClaimPipelines[b] = chatCalls[j].pipeline
    /\ \A i, j \in DOMAIN chatCalls :
         (i # j /\ chatCalls[i].pipeline = chatCalls[j].pipeline) =>
           /\ chatCalls[i].pipeline = "summarize"
           /\ chatCalls[i].step # chatCalls[j].step
    /\ (\E i \in DOMAIN chatCalls : chatCalls[i].pipeline = "freeform") =>
         ClaimPipelinesRun = {} /\ ~handled

\* the script is over and two pipelines were run for the prompt
C21_WitnessTwoPipelines ==
  /\ chatFlow = "chat" /\ pcChat = "done"
  /\ ClaimPipelinesRun = {"summarize", "risk"}

(***************************************************************************)
(* Claims about the resolution of the meeting a command names.             *)
(***************************************************************************)

ClaimKeyword(rule) == IF rule = "summarize" THEN KwSummarize ELSE KwPreprocess

\* the title the command asks for: the quoted one if there is one
ClaimAskedTitle(rule) == TitleOfCommand(rule, prompt)

\* the overlap score of the k-th event with the title
ClaimScore(title, k) == OverlapScore(last_events[k].summary, title)

\* the summary of the k-th event and the title: one contains the other
ClaimContained(title, k) ==
  \/ Contains(LowerSeq(last_events[k].summary), LowerSeq(title))
  \/ Contains(LowerSeq(title), LowerSeq(last_events[k].summary))

\* the events that relate to the title by containment: an event without a
\* summary relates to no title if strict, to every title otherwise
ClaimContainers(title, strict) ==
  {k \in DOMAIN last_events :
     /\ ClaimContained(title, k)
     /\ strict => last_events[k].summary # <<>>}

\* the event the command resolves to (0: none): by the greatest overlap
\* score if it is above 0, else by containment, first event first
ClaimResolved(rule, strict) ==
  LET title == ClaimAskedTitle(rule)
  IN  IF title = <<>> THEN BySummaryInPrompt(prompt, last_events)
      ELSE IF \E k \in DOMAIN last_events : ClaimScore(title, k) > 0
      THEN MinOf({k \in DOMAIN last_events :
                    \A j \in DOMAIN last_events :
                      ClaimScore(title, j) <= ClaimScore(title, k)})
      ELSE IF ClaimContainers(title, strict) # {}
      THEN MinOf(ClaimContainers(title, strict))
      ELSE 0

\* the rule has been applied
ClaimApplied(rule) ==
  IF rule = "summarize" THEN pcChat \notin {"summarize", "sum_start"}
  ELSE pcChat \in {"freeform", "done"}

ClaimCallsOfRule(rule) ==
  {i \in DOMAIN chatCalls : chatCalls[i].pipeline = rule}

\* the pipeline of the rule runs exactly when the command resolves to an
\* event, and for that event
ClaimResolvesAs(rule, strict) ==
  (chatFlow = "chat" /\ ClaimApplied(rule)) =>
    /\ ClaimCallsOfRule(rule) # {} <=>
         /\ InLower(prompt, ClaimKeyword(rule))
         /\ last_events # <<>>
         /\ ClaimResolved(rule, strict) # 0
    /\ \A i \in ClaimCallsOfRule(rule) :
         /\ ClaimResolved(rule, strict) # 0
         /\ chatCalls[i].meeting
              = last_events[ClaimResolved(rule, strict)].summary

\* C22: a command that names a fetched meeting is resolved by the quoted
\* title first, then by the greatest word-overlap score among the cached
\* events, if above 0, then by containment of the title in the summary or
\* the summary in the title; if no cached event relates to the title in
\* one of these ways no event is matched, and no pipeline runs for a
\* guessed meeting.
C22_NoPipelineForAGuessedMeeting ==
  ClaimResolvesAs("summarize", TRUE) /\ ClaimResolvesAs("preprocess", TRUE)

\* what holds: in the last step an event without a summary is taken for
\* every title
C22_EventWithoutSummaryIsMatched ==
  ClaimResolvesAs("summarize", FALSE) /\ ClaimResolvesAs("preprocess", FALSE)

\* a quoted title no event relates to, an event without a summary, and the
\* summarize pipeline run for it
C22_WitnessGuess ==
  /\ chatFlow = "chat" /\ pcChat = "done"
  /\ QuotedTitle(prompt) # None
  /\ ClaimResolved("summarize", TRUE) = 0
  /\ ClaimCallsOfRule("summarize") # {}

(***************************************************************************)
(* Claims about the summarize flow of the chat and of the event button.    *)
(***************************************************************************)

\* the cache has chunks for the meeting
ClaimCached ==
  \E e \in processed_cache : e.title = meeting_title /\ e.chunks # <<>>

ClaimInFlow ==
  pcChat \in {"sum_start", "sum_preprocessing", "sum_ready", "sum_summarizing"}

\* the steps of the flow called so far
ClaimSteps ==
  [i \in 1..Cardinality(ClaimCallsOfRule("summarize")) |->
     chatCalls[i].step]

\* C27: in the summarize flow of the chat command and of the event button
\* the steps run in sequence: the preprocessing call is issued if and only
\* if the cache has no chunks for the meeting, and it has returned before
\* the summarization call is issued; if preprocessing does not report
\* success the summarization is still called, with an empty list of
\* processed transcripts, and the flow goes on to its end.
C27_PreprocessThenSummarize ==
  /\ [][(pcChat = "sum_start" /\ pcChat' # "sum_start") =>
          IF ClaimCached
          THEN /\ pcChat' = "sum_summarizing"
               /\ chatCalls' =
                    Append(chatCalls,
                           Call("summarize", "summarize", meeting_title,
                                (CHOOSE e \in processed_cache :
                                   e.title = meeting_title).chunks))
          ELSE /\ pcChat' = "sum_preprocessing"
               /\ chatCalls' =
                    Append(chatCalls,
                           Call("summarize", "preprocess", meeting_title,
                                <<>>))]_vars
  /\ [][(pcChat = "sum_preprocessing" /\ pcChat' # "sum_preprocessing") =>
          pcChat' = "sum_ready" /\ proc_summary' # None
          /\ chatCalls' = chatCalls]_vars
  /\ [][(pcChat = "sum_ready" /\ pcChat' # "sum_ready") =>
          /\ pcChat' = "sum_summarizing"
          /\ chatCalls' =
               Append(chatCalls,
                      Call("summarize", "summarize", meeting_title,
                           IF proc_summary[1].status = "success"
                           THEN proc_summary[1].processed ELSE <<>>))]_vars
  /\ [][(pcChat = "sum_summarizing" /\ pcChat' # "sum_summarizing") =>
          pcChat' \in {"risk", "done"} /\ chatCalls' = chatCalls]_vars
  /\ [](ClaimInFlow => ENABLED NextChat)
  /\ [](ClaimSteps \in {<<>>, <<"preprocess">>, <<"summarize">>,
                         <<"preprocess", "summarize">>})

\* preprocessing returned an error and the summarization was called with
\* an empty list
C27_Witness ==
  /\ pcChat \in {"risk", "done", "jira", "notify", "preprocess", "freeform"}
  /\ proc_summary # None
  /\ proc_summary[1].status = "error"
  /\ ClaimSteps = <<"preprocess", "summarize">>
  /\ chatCalls[2].chunks = <<>>

\* the chunks were cached and the summarization was called without
\* preprocessing, from the button
C27_WitnessCached ==
  /\ chatFlow = "button" /\ pcChat = "done"
  /\ ClaimSteps = <<"summarize">>
  /\ chatCalls[1].chunks # <<>>
====
